---- MODULE Spec2Model ----
(***************************************************************************)
(* jj-agent: the five-stage workflow (workspace analysis, context          *)
(* building, AI planning with plan validation, execution, review).         *)
(*                                                                         *)
(* File contents are modelled by their length (the only thing the          *)
(* workflow reads of them); strings interpolated into error messages are   *)
(* modelled as records carrying the interpolated parts.                    *)
(***************************************************************************)
EXTENDS Naturals, Integers, Sequences, FiniteSets, TLC

VARIABLES
  pc,              \* position of the run inside WorkflowOrchestrator.run
  workspace,       \* WorkspaceAnalysis (changedFiles)
  fs,              \* the file system: path -> content length, or NoFile
  config,          \* WorkspaceConfig (maxContextFiles, maxContextTokens)
  context,         \* Context built by ContextBuilder.build
  aiPlan,          \* what AIService.generatePlan answers: a plan, or AIDown
  plan,            \* ExecutionPlan returned by AIPlanner.createPlan
  completedSteps,  \* accumulator of Executor.executeSteps
  startTime,       \* startTime of Executor.execute
  now,             \* Date.now()
  execution,       \* ExecutionResult
  review,          \* ReviewResult
  failure,         \* the error a stage failed with
  calls,           \* the collaborator calls made by the Executor, in order
  jjProcess,       \* how the jj process spawned by executeJJ behaves
  jjResult,        \* the exit of the Effect of executeJJ or checkJJAvailable
  markers,         \* what stat answers for each marker file of the workspace root
  projectType,     \* the exit of the Effect of detectProjectType or analyze
  clock,           \* the time of the event loop, in ms
  watcher,         \* FileWatcherService.watcher: the chokidar subscription
  debounceTimer,   \* FileWatcherService.debounceTimer: the last Timer handle
  timers,          \* the timeouts pending in the event loop
  events,          \* the times of the change events the watcher delivered
  runs,            \* the runs of the orchestrator that were started
  stopped          \* what stop() found when it was called

\* the state of the jj command module
jjVars == <<jjProcess, jjResult>>

\* the state of WorkspaceService.detectProjectType
workspaceVars == <<markers, projectType>>

\* the state of FileWatcherService and of the event loop it runs on
watcherVars == <<clock, watcher, debounceTimer, timers, events, runs, stopped>>

vars == <<pc, workspace, fs, config, context, aiPlan, plan, completedSteps,
          startTime, now, execution, review, failure, calls, jjVars,
          workspaceVars, watcherVars>>

\* detectProjectType has not been called
WorkspaceIdle ==
  /\ markers = [tag |-> "none"]
  /\ projectType = [tag |-> "none"]

\* FileWatcherService before start: both static fields are null
WatcherIdle ==
  /\ clock = 0
  /\ watcher = [tag |-> "none"]
  /\ debounceTimer = [tag |-> "none"]
  /\ timers = {}
  /\ events = <<>>
  /\ runs = <<>>
  /\ stopped = [tag |-> "none"]

(***************************************************************************)
(* Bounds and input sets                                                   *)
(***************************************************************************)
MaxChanged == 3

Paths == {"a", "b", "c"}

\* content lengths: 1, 999, 1000, 4999 and 5000 estimated tokens
ContentLengths == {4, 3996, 4000, 19996, 20000}

NoFile == 0 - 1

TokenBudgets == {500, 1500, 12000}

None == [tag |-> "none"]

\* AIService.generatePlan fails
AIDown == [tag |-> "AIError"]

\* the sequences over S of length at most n
SeqsUpTo(S, n) == UNION {[1..k -> S] : k \in 0..n}

(***************************************************************************)
(* WorkspaceService                                                        *)
(***************************************************************************)
\* Array.from(new Set(xs)): first occurrences, in order
RECURSIVE Dedup(_)
Dedup(xs) ==
  IF xs = <<>> THEN <<>>
  ELSE LET init == Dedup(SubSeq(xs, 1, Len(xs) - 1))
           last == xs[Len(xs)]
       IN IF \E i \in 1..Len(init) : init[i] = last THEN init ELSE Append(init, last)

RECURSIVE Flat(_)
Flat(xss) == IF xss = <<>> THEN <<>> ELSE Head(xss) \o Flat(Tail(xss))

FindImports(path) == <<>>

FindRelatedFiles(changedPaths) ==
  Dedup(Flat([i \in 1..Len(changedPaths) |-> FindImports(changedPaths[i])]))

ReadFile(fsys, path) ==
  IF fsys[path] = NoFile
  THEN [ok |-> FALSE,
        error |-> [tag |-> "FileError", message |-> "Failed to read file", path |-> path]]
  ELSE [ok |-> TRUE, value |-> fsys[path]]

(***************************************************************************)
(* ContextBuilder                                                          *)
(***************************************************************************)
ChangedPaths(ws) == [i \in 1..Len(ws.changedFiles) |-> ws.changedFiles[i].path]

SelectRelevantFiles(ws) ==
  Dedup(ChangedPaths(ws) \o FindRelatedFiles(ChangedPaths(ws)))

\* Math.ceil(content.length / 4)
EstimateTokens(content) == (content + 3) \div 4

\* faulty variant: the files that cannot be read are left out
LoadFileContentsSkipUnreadable(fsys, paths) ==
  LET readable == SelectSeq(paths, LAMBDA p : ReadFile(fsys, p).ok)
  IN [ok |-> TRUE,
      value |-> [i \in 1..Len(readable) |->
                   [path |-> readable[i],
                    content |-> ReadFile(fsys, readable[i]).value,
                    tokens |-> EstimateTokens(ReadFile(fsys, readable[i]).value),
                    relevance |-> 0]]]

\* Effect.all over the reads: the first failing read fails the batch
LoadFileContents(fsys, paths) ==
  IF \E i \in 1..Len(paths) : ~ReadFile(fsys, paths[i]).ok
  THEN LET i == CHOOSE k \in 1..Len(paths) :
                  /\ ~ReadFile(fsys, paths[k]).ok
                  /\ \A j \in 1..(k - 1) : ReadFile(fsys, paths[j]).ok
       IN [ok |-> FALSE, error |-> ReadFile(fsys, paths[i]).error]
  ELSE [ok |-> TRUE,
        value |-> [i \in 1..Len(paths) |->
                     [path |-> paths[i],
                      content |-> ReadFile(fsys, paths[i]).value,
                      tokens |-> EstimateTokens(ReadFile(fsys, paths[i]).value),
                      relevance |-> 0]]]

\* faulty variant: the two size tests take their bound in (<= for <)
CalculateRelevanceInclusive(file, ws) ==
  LET changed == IF \E i \in 1..Len(ws.changedFiles) : ws.changedFiles[i].path = file.path
                 THEN 100 ELSE 0
      small == IF file.tokens <= 1000 THEN 50
               ELSE IF file.tokens <= 5000 THEN 25
               ELSE 0
  IN changed + small

CalculateRelevance(file, ws) ==
  LET changed == IF \E i \in 1..Len(ws.changedFiles) : ws.changedFiles[i].path = file.path
                 THEN 100 ELSE 0
      small == IF file.tokens < 1000 THEN 50
               ELSE IF file.tokens < 5000 THEN 25
               ELSE 0
  IN changed + small

RankByRelevance(files, ws) ==
  [i \in 1..Len(files) |->
     [files[i] EXCEPT !.relevance = CalculateRelevance(files[i], ws)]]

\* faulty variant: a file is put in front of the files of its own score
RECURSIVE SortByRelevanceUnstable(_)
SortByRelevanceUnstable(files) ==
  IF files = <<>> THEN <<>>
  ELSE LET init == SortByRelevanceUnstable(SubSeq(files, 1, Len(files) - 1))
           last == files[Len(files)]
           keep == Cardinality({i \in 1..Len(init) : init[i].relevance > last.relevance})
       IN SubSeq(init, 1, keep) \o <<last>> \o SubSeq(init, keep + 1, Len(init))

\* fs.sort((a, b) => b.relevance - a.relevance): Array.prototype.sort is stable
RECURSIVE SortByRelevance(_)
SortByRelevance(files) ==
  IF files = <<>> THEN <<>>
  ELSE LET init == SortByRelevance(SubSeq(files, 1, Len(files) - 1))
           last == files[Len(files)]
           keep == Cardinality({i \in 1..Len(init) : init[i].relevance >= last.relevance})
       IN SubSeq(init, 1, keep) \o <<last>> \o SubSeq(init, keep + 1, Len(init))

RECURSIVE LimitLoop(_, _, _, _, _)
LimitLoop(sorted, i, result, totalTokens, cfg) ==
  IF i > Len(sorted) THEN result
  ELSE IF \/ Len(result) >= cfg.maxContextFiles
          \/ totalTokens + sorted[i].tokens > cfg.maxContextTokens
       THEN result
       ELSE LimitLoop(sorted, i + 1, Append(result, sorted[i]),
                      totalTokens + sorted[i].tokens, cfg)

\* faulty variant: the file-count test lets one file too many through (> for >=)
RECURSIVE LimitLoopCountOffByOne(_, _, _, _, _)
LimitLoopCountOffByOne(sorted, i, result, totalTokens, cfg) ==
  IF i > Len(sorted) THEN result
  ELSE IF \/ Len(result) > cfg.maxContextFiles
          \/ totalTokens + sorted[i].tokens > cfg.maxContextTokens
       THEN result
       ELSE LimitLoopCountOffByOne(sorted, i + 1, Append(result, sorted[i]),
                                   totalTokens + sorted[i].tokens, cfg)

LimitContextCountOffByOne(files, cfg) ==
  LimitLoopCountOffByOne(SortByRelevance(files), 1, <<>>, 0, cfg)

\* faulty variant: a rejected file is skipped and the scan goes on (continue for break)
RECURSIVE LimitLoopSkip(_, _, _, _, _)
LimitLoopSkip(sorted, i, result, totalTokens, cfg) ==
  IF i > Len(sorted) THEN result
  ELSE IF \/ Len(result) >= cfg.maxContextFiles
          \/ totalTokens + sorted[i].tokens > cfg.maxContextTokens
       THEN LimitLoopSkip(sorted, i + 1, result, totalTokens, cfg)
       ELSE LimitLoopSkip(sorted, i + 1, Append(result, sorted[i]),
                          totalTokens + sorted[i].tokens, cfg)

LimitContextSkip(files, cfg) == LimitLoopSkip(SortByRelevance(files), 1, <<>>, 0, cfg)

\* faulty variant: the files are scanned in candidate order, without the sort
LimitContextUnsorted(files, cfg) == LimitLoop(files, 1, <<>>, 0, cfg)

LimitContext(files, cfg) == LimitLoop(SortByRelevance(files), 1, <<>>, 0, cfg)

RECURSIVE SumTokens(_)
SumTokens(files) ==
  IF files = <<>> THEN 0 ELSE files[1].tokens + SumTokens(Tail(files))

Build(ws, fsys, cfg) ==
  LET loaded == LoadFileContents(fsys, SelectRelevantFiles(ws))
  IN IF ~loaded.ok
     THEN [ok |-> FALSE,
           error |-> [tag |-> "ContextError", message |-> "Failed to build context",
                      cause |-> loaded.error]]
     ELSE LET relevantFiles == LimitContext(RankByRelevance(loaded.value, ws), cfg)
          IN [ok |-> TRUE,
              value |-> [workspace |-> ws,
                         relevantFiles |-> relevantFiles,
                         totalTokens |-> SumTokens(relevantFiles)]]

(***************************************************************************)
(* WorkflowOrchestrator.run, step 2: build context                         *)
(***************************************************************************)
\* faulty variant: a failed build hands an empty Context to the planning call
BuildContextKeepGoing ==
  /\ pc = "context"
  /\ LET built == Build(workspace, fs, config)
     IN context' = IF built.ok THEN built.value
                   ELSE [workspace |-> workspace, relevantFiles |-> <<>>, totalTokens |-> 0]
  /\ pc' = "plan"
  /\ UNCHANGED <<workspace, fs, config, aiPlan, plan, completedSteps, startTime, now,
                 execution, review, failure, calls, jjVars, workspaceVars, watcherVars>>

BuildContext ==
  /\ pc = "context"
  /\ LET built == Build(workspace, fs, config)
     IN IF built.ok
        THEN /\ context' = built.value
             /\ pc' = "plan"
             /\ failure' = failure
        ELSE /\ context' = context
             /\ pc' = "failed"
             /\ failure' = [tag |-> "AppError", message |-> "Workflow execution failed",
                            cause |-> built.error]
  /\ UNCHANGED <<workspace, fs, config, aiPlan, plan, completedSteps, startTime, now,
                 execution, review, calls, jjVars, workspaceVars, watcherVars>>

(***************************************************************************)
(* AIPlanner                                                               *)
(***************************************************************************)
\* first loop of validatePlan: the identifier of the first step whose id was
\* already seen, or None
RECURSIVE DuplicateLoop(_, _, _)
DuplicateLoop(steps, i, ids) ==
  IF i > Len(steps) THEN None
  ELSE IF steps[i].id \in ids
       THEN [message |-> "Duplicate step ID", id |-> steps[i].id]
       ELSE DuplicateLoop(steps, i + 1, ids \cup {steps[i].id})

\* second loop of validatePlan: the first dependency, step by step and then in
\* the order of the step's list, that names no step of the plan, or None
RECURSIVE DependencyLoop(_, _, _, _)
DependencyLoop(steps, i, k, ids) ==
  IF i > Len(steps) THEN None
  ELSE IF k > Len(steps[i].dependencies) THEN DependencyLoop(steps, i + 1, 1, ids)
  ELSE IF steps[i].dependencies[k] \notin ids
       THEN [message |-> "depends on non-existent step",
             step |-> steps[i].id, dep |-> steps[i].dependencies[k]]
       ELSE DependencyLoop(steps, i, k + 1, ids)

StepIdsOf(steps) == {steps[i].id : i \in 1..Len(steps)}

\* faulty variant: the dependencies are validated before the identifiers
ValidatePlanDependenciesFirst(p) ==
  LET missing == DependencyLoop(p.steps, 1, 1, StepIdsOf(p.steps))
      duplicate == DuplicateLoop(p.steps, 1, {})
  IN IF missing # None THEN [ok |-> FALSE, error |-> missing]
     ELSE IF duplicate # None THEN [ok |-> FALSE, error |-> duplicate]
     ELSE [ok |-> TRUE, value |-> p]

\* faulty variant: one pass, each dependency looked up among the identifiers seen so far
RECURSIVE SinglePassLoop(_, _, _)
SinglePassLoop(steps, i, ids) ==
  IF i > Len(steps) THEN None
  ELSE IF steps[i].id \in ids
       THEN [message |-> "Duplicate step ID", id |-> steps[i].id]
       ELSE LET missing == DependencyLoop(<<steps[i]>>, 1, 1, ids \cup {steps[i].id})
            IN IF missing # None THEN missing
               ELSE SinglePassLoop(steps, i + 1, ids \cup {steps[i].id})

ValidatePlanSinglePass(p) ==
  LET problem == SinglePassLoop(p.steps, 1, {})
  IN IF problem # None THEN [ok |-> FALSE, error |-> problem]
     ELSE [ok |-> TRUE, value |-> p]

\* faulty variant: a step that depends on itself is rejected as well
ValidatePlanNoSelfDependency(p) ==
  LET duplicate == DuplicateLoop(p.steps, 1, {})
      missing == DependencyLoop(p.steps, 1, 1, StepIdsOf(p.steps))
      selfish == {i \in 1..Len(p.steps) :
                    \E k \in 1..Len(p.steps[i].dependencies) :
                      p.steps[i].dependencies[k] = p.steps[i].id}
  IN IF duplicate # None THEN [ok |-> FALSE, error |-> duplicate]
     ELSE IF missing # None THEN [ok |-> FALSE, error |-> missing]
     ELSE IF selfish # {}
          THEN [ok |-> FALSE, error |-> [message |-> "depends on itself"]]
     ELSE [ok |-> TRUE, value |-> p]

\* validatePlan: a thrown Error is the failed result
ValidatePlan(p) ==
  LET duplicate == DuplicateLoop(p.steps, 1, {})
  IN IF duplicate # None THEN [ok |-> FALSE, error |-> duplicate]
     ELSE LET missing == DependencyLoop(p.steps, 1, 1, StepIdsOf(p.steps))
          IN IF missing # None THEN [ok |-> FALSE, error |-> missing]
             ELSE [ok |-> TRUE, value |-> p]

(***************************************************************************)
(* WorkflowOrchestrator.run, step 3: create the execution plan.  createPlan *)
(* is the planning call followed by the validation of its answer.  A       *)
(* failure of generatePlan is an AIError, wrapped by createPlan and by run. *)
(* An Error thrown by validatePlan inside Effect.map is a defect: no       *)
(* catchAll handles it, and the run dies with it.                          *)
(***************************************************************************)
\* the planning call: this.aiService.generatePlan(prompt)
GeneratePlan ==
  /\ pc = "plan"
  /\ IF aiPlan = AIDown
     THEN /\ pc' = "failed"
          /\ failure' = [tag |-> "AppError", message |-> "Workflow execution failed",
                         cause |-> [tag |-> "AIError",
                                    message |-> "Failed to create execution plan",
                                    cause |-> [tag |-> "AIError",
                                               message |-> "Failed to generate plan"]]]
     ELSE /\ pc' = "validate"
          /\ failure' = failure
  /\ UNCHANGED <<workspace, fs, config, context, aiPlan, plan, completedSteps, startTime,
                 now, execution, review, calls, jjVars, workspaceVars, watcherVars>>

\* faulty variant: the answer of the planning call is passed on as it is
PassGeneratedPlan ==
  /\ pc = "validate"
  /\ pc' = "execute"
  /\ plan' = aiPlan
  /\ UNCHANGED <<workspace, fs, config, context, aiPlan, completedSteps, startTime,
                 now, execution, review, failure, calls, jjVars,
                 workspaceVars, watcherVars>>

\* Effect.map((plan) => this.validatePlan(plan))
ValidateGeneratedPlan ==
  /\ pc = "validate"
  /\ LET validated == ValidatePlan(aiPlan)
     IN IF validated.ok
        THEN /\ pc' = "execute"
             /\ plan' = validated.value
             /\ failure' = failure
        ELSE /\ pc' = "failed"
             /\ plan' = plan
             /\ failure' = [tag |-> "Defect", error |-> validated.error]
  /\ UNCHANGED <<workspace, fs, config, context, aiPlan, completedSteps, startTime,
                 now, execution, review, calls, jjVars, workspaceVars, watcherVars>>

CreatePlan == GeneratePlan \/ ValidateGeneratedPlan

(***************************************************************************)
(* Executor.  A dispatch yields the set of its possible outcomes, one per  *)
(* answer of the collaborators (jj runner, file writes and deletes); an    *)
(* outcome carries the collaborator calls made, each with its success.     *)
(***************************************************************************)
Msg(text, arg) == [text |-> text, arg |-> arg]

ExecutionError(message) == [tag |-> "ExecutionError", message |-> message]

\* what the jj process wrote to its standard error
Stderr(command) == Msg("stderr of jj", command)

\* the process did not start, or its output could not be read
NoExit == 0 - 1

\* the exit codes of the jj process
ExitCodes == {0, 1}

\* JJService.execute: Bun.spawn of jj; the output on exit code 0, otherwise a
\* JJError around the thrown Error (whose message holds exit code and stderr);
\* a failure to spawn or to read is a JJError as well
Execute(command) ==
  {IF exit = 0
   THEN [ok |-> TRUE, value |-> Msg("stdout of jj", command),
         calls |-> <<[op |-> "jj", arg |-> command, content |-> 0, ok |-> TRUE,
                      exit |-> exit]>>]
   ELSE [ok |-> FALSE,
         error |-> [tag |-> "JJError", message |-> Msg("Failed to execute JJ command", ""),
                    command |-> command,
                    cause |-> IF exit = NoExit
                              THEN [message |-> Msg("spawn failed", "")]
                              ELSE [message |-> Msg("JJ command failed with exit code",
                                                    ToString(exit)),
                                    stderr |-> Stderr(command)]],
         calls |-> <<[op |-> "jj", arg |-> command, content |-> 0, ok |-> FALSE,
                      exit |-> exit]>>] :
     exit \in ExitCodes \cup {NoExit}}

\* JJService.executeCommand: the output, or the runner's failure wrapped
ExecuteCommand(command) ==
  {IF outcome.ok THEN outcome
   ELSE [ok |-> FALSE,
         error |-> [tag |-> "ExecutionError", message |-> Msg("JJ command failed", ""),
                    command |-> command, cause |-> outcome.error],
         calls |-> outcome.calls] :
     outcome \in Execute(command)}

\* faulty variant: the command is handed to the runner without the test
ExecuteJJCommandNoGuard(step) == ExecuteCommand(step.command)

\* executeJJCommand: !step.command holds of an absent and of an empty command
ExecuteJJCommand(step) ==
  IF step.command = ""
  THEN {[ok |-> FALSE, error |-> ExecutionError(Msg("JJ command step missing command", "")),
         calls |-> <<>>]}
  ELSE ExecuteCommand(step.command)

\* Effect.all over the writes of a step, one after the other: the first entry
\* without content, or the first write that fails, fails the batch
RECURSIVE WriteAll(_, _, _)
WriteAll(files, i, done) ==
  IF i > Len(files)
  THEN {[ok |-> TRUE, value |-> Msg("Wrote file(s)", ToString(Len(files))), calls |-> done]}
  ELSE IF files[i].content = 0
  THEN {[ok |-> FALSE,
         error |-> ExecutionError(Msg("File write missing content: ", files[i].path)),
         calls |-> done]}
  ELSE LET call == [op |-> "write", arg |-> files[i].path, content |-> files[i].content,
                    ok |-> TRUE]
       IN {[ok |-> FALSE,
            error |-> [tag |-> "FileError", message |-> Msg("Failed to write file", "")],
            calls |-> Append(done, [call EXCEPT !.ok = FALSE])]}
          \cup WriteAll(files, i + 1, Append(done, [call EXCEPT !.ok = TRUE]))

ExecuteFileWrite(step) ==
  IF Len(step.files) = 0
  THEN {[ok |-> FALSE, error |-> ExecutionError(Msg("File write step missing files", "")),
         calls |-> <<>>]}
  ELSE WriteAll(step.files, 1, <<>>)

RECURSIVE DeleteAll(_, _, _)
DeleteAll(files, i, done) ==
  IF i > Len(files)
  THEN {[ok |-> TRUE, value |-> Msg("Deleted file(s)", ToString(Len(files))), calls |-> done]}
  ELSE LET call == [op |-> "delete", arg |-> files[i].path, content |-> 0, ok |-> TRUE]
       IN {[ok |-> FALSE,
            error |-> [tag |-> "FileError", message |-> Msg("Failed to delete file", "")],
            calls |-> Append(done, [call EXCEPT !.ok = FALSE])]}
          \cup DeleteAll(files, i + 1, Append(done, [call EXCEPT !.ok = TRUE]))

ExecuteFileDelete(step) ==
  IF Len(step.files) = 0
  THEN {[ok |-> FALSE, error |-> ExecutionError(Msg("File delete step missing files", "")),
         calls |-> <<>>]}
  ELSE DeleteAll(step.files, 1, <<>>)

\* faulty variant: a step whose dependencies have not all succeeded is not dispatched
ExecuteStepByTypeAfterDependencies(step) ==
  IF \A k \in 1..Len(step.dependencies) :
       \E i \in 1..Len(completedSteps) :
         completedSteps[i].step.id = step.dependencies[k] /\ completedSteps[i].success
  THEN CASE step.type = "jj_command" -> ExecuteJJCommand(step)
         [] step.type = "file_write" -> ExecuteFileWrite(step)
         [] step.type = "file_delete" -> ExecuteFileDelete(step)
         [] step.type = "analysis" ->
              {[ok |-> TRUE, value |-> Msg("Analysis completed", ""), calls |-> <<>>]}
         [] step.type = "validation" ->
              {[ok |-> TRUE, value |-> Msg("Validation completed", ""), calls |-> <<>>]}
         [] OTHER ->
              {[ok |-> FALSE, error |-> ExecutionError(Msg("Unknown step type: ", step.type)),
                calls |-> <<>>]}
  ELSE {[ok |-> FALSE, error |-> ExecutionError(Msg("Dependencies not satisfied", "")),
         calls |-> <<>>]}

ExecuteStepByType(step) ==
  CASE step.type = "jj_command" -> ExecuteJJCommand(step)
    [] step.type = "file_write" -> ExecuteFileWrite(step)
    [] step.type = "file_delete" -> ExecuteFileDelete(step)
    [] step.type = "analysis" ->
         {[ok |-> TRUE, value |-> Msg("Analysis completed", ""), calls |-> <<>>]}
    [] step.type = "validation" ->
         {[ok |-> TRUE, value |-> Msg("Validation completed", ""), calls |-> <<>>]}
    [] OTHER ->
         {[ok |-> FALSE, error |-> ExecutionError(Msg("Unknown step type: ", step.type)),
           calls |-> <<>>]}

\* faulty variant: no catchAll at the step boundary, the failure of the dispatch is the
\* failure of executeStep
ExecuteStepNoCatch(step, outcome, duration) ==
  IF outcome.ok
  THEN [ok |-> TRUE,
        value |-> [step |-> step, success |-> TRUE, output |-> outcome.value,
                   duration |-> duration]]
  ELSE [ok |-> FALSE, error |-> outcome.error]

\* executeStep: the outcome of the dispatch as a StepResult; never a failure
ExecuteStep(step, outcome, duration) ==
  IF outcome.ok
  THEN [ok |-> TRUE,
        value |-> [step |-> step, success |-> TRUE, output |-> outcome.value,
                   duration |-> duration]]
  ELSE [ok |-> TRUE,
        value |-> [step |-> step, success |-> FALSE, error |-> outcome.error.message,
                   duration |-> duration]]

\* faulty variant: the new result is put in front of the accumulator
AccumulateInFront(acc, result) == <<result>> \o acc

\* the reducer of executeSteps: [...acc, result]
Accumulate(acc, result) == Append(acc, result)

\* faulty variant: some for every
AnySucceeded(results) == \E i \in 1..Len(results) : results[i].success

\* completedSteps.every((s) => s.success)
AllSucceeded(results) == \A i \in 1..Len(results) : results[i].success

\* the effect of the collaborator calls on the file system
RECURSIVE ApplyCalls(_, _)
ApplyCalls(fsys, cs) ==
  IF cs = <<>> THEN fsys
  ELSE LET c == Head(cs)
           next == IF ~c.ok \/ c.op = "jj" THEN fsys
                   ELSE IF c.op = "write" THEN [fsys EXCEPT ![c.arg] = c.content]
                   ELSE [fsys EXCEPT ![c.arg] = NoFile]
       IN ApplyCalls(next, Tail(cs))

Ticks == {0, 1}

(***************************************************************************)
(* WorkflowOrchestrator.run, step 4: execute the plan                      *)
(***************************************************************************)
\* Executor.execute is entered: startTime = Date.now()
StartExecute ==
  /\ pc = "execute"
  /\ pc' = "steps"
  /\ startTime' = now
  /\ completedSteps' = <<>>
  /\ UNCHANGED <<workspace, fs, config, context, aiPlan, plan, now, execution,
                 review, failure, calls, jjVars, workspaceVars, watcherVars>>

\* one round of the Effect.reduce of executeSteps
ExecuteNextStep ==
  /\ pc = "steps"
  /\ Len(completedSteps) < Len(plan.steps)
  /\ LET step == plan.steps[Len(completedSteps) + 1]
     IN \E outcome \in ExecuteStepByType(step), tick \in Ticks :
          LET result == ExecuteStep(step, outcome, tick)
          IN /\ now' = now + tick
             /\ calls' = calls \o outcome.calls
             /\ fs' = ApplyCalls(fs, outcome.calls)
             /\ IF result.ok
                THEN /\ completedSteps' = Accumulate(completedSteps, result.value)
                     /\ pc' = pc
                     /\ failure' = failure
                ELSE /\ completedSteps' = completedSteps
                     /\ pc' = "failed"
                     /\ failure' = [tag |-> "AppError",
                                    message |-> "Workflow execution failed",
                                    cause |-> [tag |-> "ExecutionError",
                                               message |-> "Failed to execute plan",
                                               cause |-> result.error]]
  /\ UNCHANGED <<workspace, config, context, aiPlan, plan, startTime, execution, review, jjVars,
                 workspaceVars, watcherVars>>

\* the reduce is over: the ExecutionResult
FinishExecute ==
  /\ pc = "steps"
  /\ Len(completedSteps) >= Len(plan.steps)
  /\ \E tick \in Ticks :
       /\ now' = now + tick
       /\ execution' = [plan |-> plan,
                        completedSteps |-> completedSteps,
                        success |-> AllSucceeded(completedSteps),
                        duration |-> now' - startTime]
  /\ pc' = "review"
  /\ UNCHANGED <<workspace, fs, config, context, aiPlan, plan, completedSteps,
                 startTime, review, failure, calls, jjVars, workspaceVars, watcherVars>>

(***************************************************************************)
(* Reviewer                                                                *)
(***************************************************************************)
CheckAllStepsCompleted(result) ==
  LET allCompleted == Len(result.completedSteps) = Len(result.plan.steps)
  IN [name |-> "All steps completed",
      passed |-> allCompleted,
      message |-> IF allCompleted
                  THEN [text |-> "All steps were executed", args |-> <<>>]
                  ELSE [text |-> "Only n/m steps completed",
                        args |-> <<Len(result.completedSteps), Len(result.plan.steps)>>]]

FailedSteps(result) ==
  SelectSeq(result.completedSteps, LAMBDA s : ~s.success)

CheckNoErrors(result) ==
  LET failedSteps == FailedSteps(result)
  IN [name |-> "No errors",
      passed |-> Len(failedSteps) = 0,
      message |-> IF Len(failedSteps) = 0
                  THEN [text |-> "No errors occurred", args |-> <<>>]
                  ELSE [text |-> "n step(s) failed", args |-> <<Len(failedSteps)>>]]

\* faulty variant: a duration of exactly twice the estimate fails the check
CheckReasonableDurationStrict(result) ==
  LET reasonable == result.duration < result.plan.estimatedDuration * 2
  IN [name |-> "Reasonable duration",
      passed |-> reasonable,
      message |-> IF reasonable
                  THEN [text |-> "Completed in n ms (estimated m ms)",
                        args |-> <<result.duration, result.plan.estimatedDuration>>]
                  ELSE [text |-> "Took n ms, exceeded 2x estimate (m ms)",
                        args |-> <<result.duration, result.plan.estimatedDuration>>]]

CheckReasonableDuration(result) ==
  LET reasonable == result.duration <= result.plan.estimatedDuration * 2
  IN [name |-> "Reasonable duration",
      passed |-> reasonable,
      message |-> IF reasonable
                  THEN [text |-> "Completed in n ms (estimated m ms)",
                        args |-> <<result.duration, result.plan.estimatedDuration>>]
                  ELSE [text |-> "Took n ms, exceeded 2x estimate (m ms)",
                        args |-> <<result.duration, result.plan.estimatedDuration>>]]

ValidateExecution(result) ==
  LET checks == <<CheckAllStepsCompleted(result), CheckNoErrors(result),
                  CheckReasonableDuration(result)>>
  IN [passed |-> \A i \in 1..Len(checks) : checks[i].passed, checks |-> checks]

\* faulty variant: no optimization suggestion when the duration check has failed
GenerateSuggestionsExclusive(result, validation) ==
  LET failedChecks == SelectSeq(validation.checks, LAMBDA c : ~c.passed)
      failedSteps == FailedSteps(result)
      address == IF ~validation.passed
                 THEN [i \in 1..Len(failedChecks) |->
                         [kind |-> "Address", message |-> failedChecks[i].message,
                          ids |-> <<>>]]
                 ELSE <<>>
      retry == IF Len(failedSteps) > 0
               THEN <<[kind |-> "Retry failed steps",
                       message |-> [text |-> "", args |-> <<>>],
                       ids |-> [i \in 1..Len(failedSteps) |-> failedSteps[i].step.id]]>>
               ELSE <<>>
      optimize == IF /\ 2 * result.duration > 3 * result.plan.estimatedDuration
                     /\ result.duration <= 2 * result.plan.estimatedDuration
                  THEN <<[kind |-> "Consider optimizing",
                          message |-> [text |-> "", args |-> <<>>], ids |-> <<>>]>>
                  ELSE <<>>
  IN address \o retry \o optimize

\* faulty variant: the optimization is suggested as soon as the estimate is exceeded
GenerateSuggestionsAtEstimate(result, validation) ==
  LET failedChecks == SelectSeq(validation.checks, LAMBDA c : ~c.passed)
      failedSteps == FailedSteps(result)
      address == IF ~validation.passed
                 THEN [i \in 1..Len(failedChecks) |->
                         [kind |-> "Address", message |-> failedChecks[i].message,
                          ids |-> <<>>]]
                 ELSE <<>>
      retry == IF Len(failedSteps) > 0
               THEN <<[kind |-> "Retry failed steps",
                       message |-> [text |-> "", args |-> <<>>],
                       ids |-> [i \in 1..Len(failedSteps) |-> failedSteps[i].step.id]]>>
               ELSE <<>>
      optimize == IF result.duration > result.plan.estimatedDuration
                  THEN <<[kind |-> "Consider optimizing",
                          message |-> [text |-> "", args |-> <<>>], ids |-> <<>>]>>
                  ELSE <<>>
  IN address \o retry \o optimize

GenerateSuggestions(result, validation) ==
  LET failedChecks == SelectSeq(validation.checks, LAMBDA c : ~c.passed)
      failedSteps == FailedSteps(result)
      address == IF ~validation.passed
                 THEN [i \in 1..Len(failedChecks) |->
                         [kind |-> "Address", message |-> failedChecks[i].message,
                          ids |-> <<>>]]
                 ELSE <<>>
      retry == IF Len(failedSteps) > 0
               THEN <<[kind |-> "Retry failed steps",
                       message |-> [text |-> "", args |-> <<>>],
                       ids |-> [i \in 1..Len(failedSteps) |-> failedSteps[i].step.id]]>>
               ELSE <<>>
      \* result.duration > result.plan.estimatedDuration * 1.5
      optimize == IF 2 * result.duration > 3 * result.plan.estimatedDuration
                  THEN <<[kind |-> "Consider optimizing",
                          message |-> [text |-> "", args |-> <<>>], ids |-> <<>>]>>
                  ELSE <<>>
  IN address \o retry \o optimize

\* faulty variant: the verdict is the validation alone
ReviewOfValidationOnly(result) ==
  LET validation == ValidateExecution(result)
  IN [execution |-> result,
      validation |-> validation,
      suggestions |-> GenerateSuggestions(result, validation),
      approved |-> validation.passed]

\* faulty variant: the suggestions are not put into the ReviewResult
ReviewOfNoSuggestions(result) ==
  LET validation == ValidateExecution(result)
  IN [execution |-> result,
      validation |-> validation,
      suggestions |-> <<>>,
      approved |-> validation.passed /\ result.success]

\* Reviewer.review
ReviewOf(result) ==
  LET validation == ValidateExecution(result)
  IN [execution |-> result,
      validation |-> validation,
      suggestions |-> GenerateSuggestions(result, validation),
      approved |-> validation.passed /\ result.success]

(***************************************************************************)
(* WorkflowOrchestrator.run, step 5: review the execution                  *)
(***************************************************************************)
Review ==
  /\ pc = "review"
  /\ review' = ReviewOf(execution)
  /\ pc' = "done"
  /\ UNCHANGED <<workspace, fs, config, context, aiPlan, plan, completedSteps,
                 startTime, now, execution, failure, calls, jjVars,
                 workspaceVars, watcherVars>>

(***************************************************************************)
(* Context building on its own, over every snapshot, file system and       *)
(* budget of the bounds                                                    *)
(***************************************************************************)
Snapshots ==
  {[changedFiles |-> [i \in 1..Len(ps) |-> [path |-> ps[i]]]] :
     ps \in SeqsUpTo(Paths, MaxChanged)}

InitContext ==
  /\ pc = "context"
  /\ workspace \in Snapshots
  /\ fs \in [Paths -> ContentLengths \cup {NoFile}]
  \* only the files of the snapshot are ever read
  /\ \A p \in Paths : ~(\E i \in 1..Len(workspace.changedFiles) :
                           workspace.changedFiles[i].path = p) => fs[p] = NoFile
  /\ config \in [maxContextFiles : 0..MaxChanged, maxContextTokens : TokenBudgets]
  /\ context = None
  /\ aiPlan = AIDown
  /\ plan = None
  /\ completedSteps = <<>>
  /\ startTime = 0
  /\ now = 0
  /\ execution = None
  /\ review = None
  /\ failure = None
  /\ calls = <<>>
  /\ jjProcess = None
  /\ jjResult = None
  /\ WorkspaceIdle
  /\ WatcherIdle

NextContext == BuildContext

SpecContext == InitContext /\ [][NextContext]_vars

(***************************************************************************)
(* Plan validation on its own, over every plan of the bounds               *)
(***************************************************************************)
MaxPlanSteps == 4

StepIds == {"1", "2", "3"}

DependencyLists == {<<>>, <<"1">>, <<"2">>, <<"3", "2">>}

PlainSteps ==
  {[id |-> id, type |-> "analysis", command |-> "", files |-> <<>>, dependencies |-> deps] :
     id \in StepIds, deps \in DependencyLists}

ValidationPlans ==
  {[steps |-> steps, estimatedDuration |-> 0] : steps \in SeqsUpTo(PlainSteps, MaxPlanSteps)}

InitPlan ==
  /\ pc = "plan"
  /\ workspace = [changedFiles |-> <<>>]
  /\ fs = [p \in Paths |-> NoFile]
  /\ config = [maxContextFiles |-> 0, maxContextTokens |-> 0]
  /\ context = [workspace |-> workspace, relevantFiles |-> <<>>, totalTokens |-> 0]
  /\ aiPlan \in ValidationPlans \cup {AIDown}
  /\ plan = None
  /\ completedSteps = <<>>
  /\ startTime = 0
  /\ now = 0
  /\ execution = None
  /\ review = None
  /\ failure = None
  /\ calls = <<>>
  /\ jjProcess = None
  /\ jjResult = None
  /\ WorkspaceIdle
  /\ WatcherIdle

NextPlan == CreatePlan

SpecPlan == InitPlan /\ [][NextPlan]_vars

(***************************************************************************)
(* Execution and review on their own, over every plan of the bounds        *)
(***************************************************************************)
MaxExecSteps == 2

EstimatedDurations == {0, 1, 2}

\* what a step can ask for: type, command and file operations
StepShapes ==
  {[type |-> "jj_command", command |-> "status", files |-> <<>>],
   [type |-> "jj_command", command |-> "", files |-> <<>>],
   [type |-> "file_write", command |-> "",
    files |-> <<[path |-> "a", operation |-> "create", content |-> 4]>>],
   [type |-> "file_write", command |-> "",
    files |-> <<[path |-> "a", operation |-> "update", content |-> 4],
                [path |-> "b", operation |-> "create", content |-> 0]>>],
   [type |-> "file_write", command |-> "", files |-> <<>>],
   [type |-> "file_delete", command |-> "",
    files |-> <<[path |-> "c", operation |-> "delete", content |-> 0]>>],
   [type |-> "file_delete", command |-> "", files |-> <<>>],
   [type |-> "analysis", command |-> "", files |-> <<>>],
   [type |-> "validation", command |-> "", files |-> <<>>],
   [type |-> "deploy", command |-> "", files |-> <<>>]}

\* the steps of a plan are numbered in declaration order
StepsOf(shapes) ==
  [i \in 1..Len(shapes) |->
     [id |-> ToString(i), type |-> shapes[i].type, command |-> shapes[i].command,
      files |-> shapes[i].files, dependencies |-> <<>>]]

ExecPlans ==
  {[steps |-> StepsOf(shapes), estimatedDuration |-> est] :
     shapes \in SeqsUpTo(StepShapes, MaxExecSteps), est \in EstimatedDurations}

InitExec ==
  /\ pc = "execute"
  /\ workspace = [changedFiles |-> <<>>]
  /\ fs = [p \in Paths |-> NoFile]
  /\ config = [maxContextFiles |-> 0, maxContextTokens |-> 0]
  /\ context = [workspace |-> workspace, relevantFiles |-> <<>>, totalTokens |-> 0]
  /\ aiPlan \in ExecPlans
  /\ plan = aiPlan
  /\ completedSteps = <<>>
  /\ startTime = 0
  /\ now = 0
  /\ execution = None
  /\ review = None
  /\ failure = None
  /\ calls = <<>>
  /\ jjProcess = None
  /\ jjResult = None
  /\ WorkspaceIdle
  /\ WatcherIdle

NextExec == StartExecute \/ ExecuteNextStep \/ FinishExecute \/ Review

SpecExec == InitExec /\ [][NextExec]_vars

(***************************************************************************)
(* Review on its own, over every ExecutionResult of the bounds, also those *)
(* the Executor does not produce                                           *)
(***************************************************************************)
MaxReviewSteps == 2

Durations == {0, 1, 2, 3, 4, 5}

PlainStep(i) ==
  [id |-> ToString(i), type |-> "analysis", command |-> "", files |-> <<>>,
   dependencies |-> <<>>]

PlainResult(i, success) ==
  IF success
  THEN [step |-> PlainStep(i), success |-> TRUE, output |-> Msg("Analysis completed", ""),
        duration |-> 0]
  ELSE [step |-> PlainStep(i), success |-> FALSE, error |-> Msg("JJ command failed", ""),
        duration |-> 0]

ExecutionResults ==
  {[plan |-> [steps |-> [i \in 1..n |-> PlainStep(i)], estimatedDuration |-> est],
    completedSteps |-> [i \in 1..Len(flags) |-> PlainResult(i, flags[i])],
    success |-> success,
    duration |-> duration] :
     n \in 0..MaxReviewSteps, est \in EstimatedDurations,
     flags \in SeqsUpTo(BOOLEAN, MaxReviewSteps), success \in BOOLEAN,
     duration \in Durations}

InitReview ==
  /\ pc = "review"
  /\ workspace = [changedFiles |-> <<>>]
  /\ fs = [p \in Paths |-> NoFile]
  /\ config = [maxContextFiles |-> 0, maxContextTokens |-> 0]
  /\ context = [workspace |-> workspace, relevantFiles |-> <<>>, totalTokens |-> 0]
  /\ execution \in ExecutionResults
  /\ aiPlan = execution.plan
  /\ plan = execution.plan
  /\ completedSteps = execution.completedSteps
  /\ startTime = 0
  /\ now = execution.duration
  /\ review = None
  /\ failure = None
  /\ calls = <<>>
  /\ jjProcess = None
  /\ jjResult = None
  /\ WorkspaceIdle
  /\ WatcherIdle

NextReview == Review

SpecReview == InitReview /\ [][NextReview]_vars

(***************************************************************************)
(* The whole run of WorkflowOrchestrator.run                               *)
(***************************************************************************)
PipelineSnapshots ==
  {[changedFiles |-> <<>>],
   [changedFiles |-> <<[path |-> "a"]>>],
   [changedFiles |-> <<[path |-> "a"], [path |-> "b"]>>]}

Step(id, shape, dependencies) ==
  [id |-> id, type |-> shape.type, command |-> shape.command, files |-> shape.files,
   dependencies |-> dependencies]

WriteA == [type |-> "file_write", command |-> "",
           files |-> <<[path |-> "a", operation |-> "create", content |-> 4]>>]

Describe == [type |-> "jj_command", command |-> "describe -m done", files |-> <<>>]

NoCommand == [type |-> "jj_command", command |-> "", files |-> <<>>]

Analysis == [type |-> "analysis", command |-> "", files |-> <<>>]

DeleteC == [type |-> "file_delete", command |-> "",
            files |-> <<[path |-> "c", operation |-> "delete", content |-> 0]>>]

PipelinePlans ==
  {[steps |-> steps, estimatedDuration |-> est] :
     steps \in {<<>>,
                <<Step("1", WriteA, <<>>), Step("2", Describe, <<"1">>)>>,
                <<Step("1", Describe, <<"2">>), Step("2", Analysis, <<>>)>>,
                <<Step("1", NoCommand, <<"3">>), Step("2", DeleteC, <<"1">>),
                  Step("3", Analysis, <<"3">>)>>,
                <<Step("1", Analysis, <<>>), Step("1", WriteA, <<>>)>>,
                <<Step("1", WriteA, <<"7">>)>>},
     est \in EstimatedDurations}

\* WorkspaceAnalyzer.analyze: the snapshot jj reports, or a WorkspaceError
Analyze ==
  /\ pc = "analyze"
  /\ \E snapshot \in PipelineSnapshots \cup {None} :
       IF snapshot = None
       THEN /\ pc' = "failed"
            /\ workspace' = workspace
            /\ failure' = [tag |-> "AppError", message |-> "Workflow execution failed",
                           cause |-> [tag |-> "WorkspaceError",
                                      message |-> "Failed to analyze workspace"]]
       ELSE /\ pc' = "context"
            /\ workspace' = snapshot
            /\ failure' = failure
  /\ UNCHANGED <<fs, config, context, aiPlan, plan, completedSteps, startTime, now,
                 execution, review, calls, jjVars, workspaceVars, watcherVars>>

Init ==
  /\ pc = "analyze"
  /\ workspace = None
  /\ fs \in {[p \in Paths |-> IF p = "a" THEN a ELSE IF p = "b" THEN 4 ELSE NoFile] :
               a \in {4, 3996, NoFile}}
  /\ config \in {[maxContextFiles |-> 2, maxContextTokens |-> 500]}
  /\ context = None
  /\ aiPlan \in PipelinePlans \cup {AIDown}
  /\ plan = None
  /\ completedSteps = <<>>
  /\ startTime = 0
  /\ now = 0
  /\ execution = None
  /\ review = None
  /\ failure = None
  /\ calls = <<>>
  /\ jjProcess = None
  /\ jjResult = None
  /\ WorkspaceIdle
  /\ WatcherIdle

Next ==
  \/ Analyze
  \/ BuildContext
  \/ CreatePlan
  \/ StartExecute
  \/ ExecuteNextStep
  \/ FinishExecute
  \/ Review

Spec == Init /\ [][Next]_vars

(***************************************************************************)
(* The jj command module: executeJJ and checkJJAvailable, over every        *)
(* behaviour of the spawned process within the bounds.  Text written by    *)
(* the process is a sequence of characters.                                *)
(***************************************************************************)
MaxOutput == 3

Whitespace == {" ", "\n"}

Characters == Whitespace \cup {"j"}

Outputs == SeqsUpTo(Characters, MaxOutput)

\* what a promise of tryPromise does: it resolves, it rejects with an Error,
\* or it rejects with something else
Settlements == {"resolved", "Error", "other"}

ProcessExitCodes == {0, 1, 2}

\* Bun.spawn and proc.exited, the exit code, the reading of both streams
JJProcesses ==
  [spawn : Settlements, exitCode : ProcessExitCodes, read : Settlements,
   stdout : Outputs, stderr : {<<>>, <<"j">>}]

JJArgs == {<<>>, <<"status">>, <<"log", "-r", "@">>}

\* String.prototype.trim
RECURSIVE TrimStart(_)
TrimStart(text) ==
  IF text # <<>> /\ Head(text) \in Whitespace THEN TrimStart(Tail(text)) ELSE text

RECURSIVE TrimEnd(_)
TrimEnd(text) ==
  IF text # <<>> /\ text[Len(text)] \in Whitespace
  THEN TrimEnd(SubSeq(text, 1, Len(text) - 1))
  ELSE text

Trim(text) == TrimEnd(TrimStart(text))

\* the catch of a tryPromise of executeJJ
JJNotFoundError(settlement, fallback) ==
  [_tag |-> "JJNotFoundError",
   message |-> IF settlement = "Error" THEN "error.message" ELSE fallback]

\* faulty variant: the process is spawned outside tryPromise, a throw of Bun.spawn
\* is a defect
ExecuteJJSpawnUnguarded(args, process) ==
  IF process.spawn # "resolved"
  THEN [exit |-> "Die", defect |-> process.spawn]
  ELSE IF process.read # "resolved"
  THEN [exit |-> "Failure",
        error |-> JJNotFoundError(process.read, "Failed to read command output")]
  ELSE IF process.exitCode = 0
  THEN [exit |-> "Success", value |-> Trim(process.stdout)]
  ELSE [exit |-> "Failure",
        error |-> [_tag |-> "JJCommandError",
                   command |-> [prefix |-> "jj ", joined |-> args],
                   exitCode |-> process.exitCode,
                   stderr |-> process.stderr,
                   stdout |-> process.stdout]]

\* executeJJ: the Exit of the returned Effect
ExecuteJJ(args, process) ==
  IF process.spawn # "resolved"
  THEN [exit |-> "Failure",
        error |-> JJNotFoundError(process.spawn, "Failed to execute jj command")]
  ELSE IF process.read # "resolved"
  THEN [exit |-> "Failure",
        error |-> JJNotFoundError(process.read, "Failed to read command output")]
  ELSE IF process.exitCode = 0
  THEN [exit |-> "Success", value |-> Trim(process.stdout)]
  ELSE [exit |-> "Failure",
        error |-> [_tag |-> "JJCommandError",
                   command |-> [prefix |-> "jj ", joined |-> args],
                   exitCode |-> process.exitCode,
                   stderr |-> process.stderr,
                   stdout |-> process.stdout]]

\* checkJJAvailable: catchAll handles the failures, a defect passes through
CheckJJAvailable(process) ==
  LET executed == ExecuteJJ(<<"--version">>, process)
  IN IF executed.exit = "Success" THEN [exit |-> "Success", value |-> TRUE]
     ELSE IF executed.exit = "Failure" THEN [exit |-> "Success", value |-> FALSE]
     ELSE executed

CallExecuteJJ ==
  /\ pc = "jj"
  /\ \E args \in JJArgs :
       jjResult' = [op |-> "executeJJ", args |-> args, result |-> ExecuteJJ(args, jjProcess)]
  /\ pc' = "jj-done"
  /\ UNCHANGED <<workspace, fs, config, context, aiPlan, plan, completedSteps, startTime,
                 now, execution, review, failure, calls, jjProcess,
                 workspaceVars, watcherVars>>

CallCheckJJAvailable ==
  /\ pc = "jj"
  /\ jjResult' = [op |-> "checkJJAvailable", args |-> <<"--version">>,
                  result |-> CheckJJAvailable(jjProcess)]
  /\ pc' = "jj-done"
  /\ UNCHANGED <<workspace, fs, config, context, aiPlan, plan, completedSteps, startTime,
                 now, execution, review, failure, calls, jjProcess,
                 workspaceVars, watcherVars>>

InitJJ ==
  /\ pc = "jj"
  /\ workspace = None
  /\ fs = [p \in Paths |-> NoFile]
  /\ config = [maxContextFiles |-> 0, maxContextTokens |-> 0]
  /\ context = None
  /\ aiPlan = AIDown
  /\ plan = None
  /\ completedSteps = <<>>
  /\ startTime = 0
  /\ now = 0
  /\ execution = None
  /\ review = None
  /\ failure = None
  /\ calls = <<>>
  /\ jjProcess \in JJProcesses
  /\ jjResult = None
  /\ WorkspaceIdle
  /\ WatcherIdle

NextJJ == CallExecuteJJ \/ CallCheckJJAvailable

SpecJJ == InitJJ /\ [][NextJJ]_vars

(***************************************************************************)
(* WorkspaceService.detectProjectType and the analysis that calls it       *)
(***************************************************************************)
\* the marker files, in the order of the Effect.all of detectProjectType
MarkerFiles ==
  <<"package.json", "tsconfig.json", "Cargo.toml", "requirements.txt", "pyproject.toml">>

\* stat resolves with a Stats, or rejects because the file does not exist
StatOutcomes == {"Stats", "ENOENT"}

\* WorkspaceService.fileExists: when stat rejects, tryPromise fails with
\* what its catch returns, null; when stat resolves, stats !== null is true
FileExists(path, stats) ==
  IF stats[path] = "Stats"
  THEN [exit |-> "Success", value |-> TRUE]
  ELSE [exit |-> "Failure", error |-> [tag |-> "null"]]

\* WorkspaceService.detectProjectType: Effect.all fails with the first
\* failure of its members
DetectProjectType(stats) ==
  LET exists == [i \in 1..Len(MarkerFiles) |-> FileExists(MarkerFiles[i], stats)]
      failed == {i \in 1..Len(MarkerFiles) : exists[i].exit = "Failure"}
  IN IF failed # {}
     THEN exists[CHOOSE i \in failed : \A j \in failed : i <= j]
     ELSE LET hasPackageJson == exists[1].value
              hasTsConfig == exists[2].value
              hasCargo == exists[3].value
              hasRequirements == exists[4].value
              hasPyProject == exists[5].value
          IN [exit |-> "Success",
              value |-> IF hasTsConfig THEN "typescript"
                        ELSE IF hasPackageJson THEN "javascript"
                        ELSE IF hasCargo THEN "rust"
                        ELSE IF hasRequirements \/ hasPyProject THEN "python"
                        ELSE "unknown"]

\* WorkspaceAnalyzer.analyze: the four jj-based members of its Effect.all
\* come first; any failure is wrapped into a WorkspaceError
AnalyzeWorkspace(stats, jjOk) ==
  LET detected == DetectProjectType(stats)
      wrapped(error) == [exit |-> "Failure",
                         error |-> [tag |-> "WorkspaceError",
                                    message |-> "Failed to analyze workspace",
                                    cause |-> error]]
  IN IF ~jjOk THEN wrapped([tag |-> "WorkspaceError"])
     ELSE IF detected.exit = "Failure" THEN wrapped(detected.error)
     ELSE [exit |-> "Success", value |-> [projectType |-> detected.value]]

CallDetectProjectType ==
  /\ pc = "workspace"
  /\ projectType' = [op |-> "detectProjectType", jjOk |-> TRUE,
                     result |-> DetectProjectType(markers)]
  /\ pc' = "workspace-done"
  /\ UNCHANGED <<workspace, fs, config, context, aiPlan, plan, completedSteps, startTime,
                 now, execution, review, failure, calls, jjVars, markers, watcherVars>>

CallAnalyze ==
  /\ pc = "workspace"
  /\ \E jjOk \in BOOLEAN :
       projectType' = [op |-> "analyze", jjOk |-> jjOk,
                       result |-> AnalyzeWorkspace(markers, jjOk)]
  /\ pc' = "workspace-done"
  /\ UNCHANGED <<workspace, fs, config, context, aiPlan, plan, completedSteps, startTime,
                 now, execution, review, failure, calls, jjVars, markers, watcherVars>>

InitWorkspace ==
  /\ pc = "workspace"
  /\ workspace = None
  /\ fs = [p \in Paths |-> NoFile]
  /\ config = [maxContextFiles |-> 0, maxContextTokens |-> 0]
  /\ context = None
  /\ aiPlan = AIDown
  /\ plan = None
  /\ completedSteps = <<>>
  /\ startTime = 0
  /\ now = 0
  /\ execution = None
  /\ review = None
  /\ failure = None
  /\ calls = <<>>
  /\ jjProcess = None
  /\ jjResult = None
  /\ markers \in [{MarkerFiles[i] : i \in 1..Len(MarkerFiles)} -> StatOutcomes]
  /\ projectType = None
  /\ WatcherIdle

NextWorkspace == CallDetectProjectType \/ CallAnalyze

SpecWorkspace == InitWorkspace /\ [][NextWorkspace]_vars

(***************************************************************************)
(* FileWatcherService and the program that starts it                       *)
(*                                                                         *)
(* Time is the clock of the event loop.  A timeout runs when the clock     *)
(* reaches its due time: the clock does not pass a pending due time, and   *)
(* a due timeout runs before the change event of the same instant (the     *)
(* event loop runs its timers before it polls for I/O).                    *)
(***************************************************************************)
DebounceMs == 1000

MaxClock == 3000

MaxEvents == 2

\* the steps by which the clock advances
Delays == {DebounceMs \div 2, DebounceMs}

\* a run of the orchestrator that has just been started
NewRun(trigger, event) ==
  [trigger |-> trigger, event |-> event, at |-> clock, status |-> "running"]

\* the run is still executing
InProgress(run) == run.status = "running"

\* FileWatcherService.start: subscribes to the changes of the workspace
StartWatcher ==
  /\ pc = "watcher"
  /\ watcher = None
  /\ watcher' = [tag |-> "FSWatcher", closing |-> FALSE]
  /\ pc' = "initial"
  /\ UNCHANGED <<workspace, fs, config, context, aiPlan, plan, completedSteps, startTime,
                 now, execution, review, failure, calls, jjVars, workspaceVars,
                 clock, debounceTimer, timers, events, runs, stopped>>

\* the program starts the initial run once the watcher is started
RunInitial ==
  /\ pc = "initial"
  /\ runs' = Append(runs, NewRun("program", 0))
  /\ pc' = "watching"
  /\ UNCHANGED <<workspace, fs, config, context, aiPlan, plan, completedSteps, startTime,
                 now, execution, review, failure, calls, jjVars, workspaceVars,
                 clock, watcher, debounceTimer, timers, events, stopped>>

\* a run of the orchestrator ends: its Effect succeeds or fails
FinishRun ==
  /\ \E i \in 1..Len(runs) :
       /\ InProgress(runs[i])
       /\ \E failed \in BOOLEAN :
            runs' = [runs EXCEPT ![i].status = IF failed THEN "failed" ELSE "completed"]
  /\ UNCHANGED <<pc, workspace, fs, config, context, aiPlan, plan, completedSteps,
                 startTime, now, execution, review, failure, calls, jjVars, workspaceVars,
                 clock, watcher, debounceTimer, timers, events, stopped>>

\* the timeouts that are due
Due == {t \in timers : t.due <= clock}

\* faulty variant: the pending timer is not cleared
OnAllNoClear ==
  /\ watcher # None
  /\ Due = {}
  /\ Len(events) < MaxEvents
  /\ LET id == Len(events) + 1
     IN /\ timers' = timers \cup {[id |-> id, due |-> clock + DebounceMs]}
        /\ debounceTimer' = [tag |-> "Timer", id |-> id]
  /\ events' = Append(events, clock)
  /\ UNCHANGED <<pc, workspace, fs, config, context, aiPlan, plan, completedSteps,
                 startTime, now, execution, review, failure, calls, jjVars, workspaceVars,
                 clock, watcher, runs, stopped>>

\* watcher.on("all"): the handler of a change event clears the timer that
\* debounceTimer holds and sets a new one
OnAll ==
  /\ watcher # None
  /\ Due = {}
  /\ Len(events) < MaxEvents
  /\ LET id == Len(events) + 1
         cleared == IF debounceTimer # None
                    THEN {t \in timers : t.id # debounceTimer.id}
                    ELSE timers
     IN /\ timers' = cleared \cup {[id |-> id, due |-> clock + DebounceMs]}
        /\ debounceTimer' = [tag |-> "Timer", id |-> id]
  /\ events' = Append(events, clock)
  /\ UNCHANGED <<pc, workspace, fs, config, context, aiPlan, plan, completedSteps,
                 startTime, now, execution, review, failure, calls, jjVars, workspaceVars,
                 clock, watcher, runs, stopped>>

\* the callback of setTimeout: starts a run of the orchestrator; the handle
\* stays in debounceTimer
TimerFires ==
  /\ \E t \in Due :
       /\ timers' = timers \ {t}
       /\ runs' = Append(runs, NewRun("timer", t.id))
  /\ UNCHANGED <<pc, workspace, fs, config, context, aiPlan, plan, completedSteps,
                 startTime, now, execution, review, failure, calls, jjVars, workspaceVars,
                 clock, watcher, debounceTimer, events, stopped>>

\* FileWatcherService.stop: clears the timer and calls close() on the
\* subscription
Stop ==
  /\ watcher # None
  /\ ~watcher.closing
  /\ IF debounceTimer # None
     THEN /\ timers' = {t \in timers : t.id # debounceTimer.id}
          /\ debounceTimer' = None
     ELSE UNCHANGED <<timers, debounceTimer>>
  /\ watcher' = [watcher EXCEPT !.closing = TRUE]
  /\ stopped' = [at |-> clock, events |-> Len(events), runs |-> Len(runs)]
  /\ UNCHANGED <<pc, workspace, fs, config, context, aiPlan, plan, completedSteps,
                 startTime, now, execution, review, failure, calls, jjVars, workspaceVars,
                 clock, events, runs>>

\* stop after the await: close() has completed, the subscription is dropped
Closed ==
  /\ watcher # None
  /\ watcher.closing
  /\ watcher' = None
  /\ UNCHANGED <<pc, workspace, fs, config, context, aiPlan, plan, completedSteps,
                 startTime, now, execution, review, failure, calls, jjVars, workspaceVars,
                 clock, debounceTimer, timers, events, runs, stopped>>

\* time passes, up to the next due time
Tick ==
  /\ \E d \in Delays :
       /\ clock + d <= MaxClock
       /\ \A t \in timers : clock + d <= t.due
       /\ clock' = clock + d
  /\ UNCHANGED <<pc, workspace, fs, config, context, aiPlan, plan, completedSteps,
                 startTime, now, execution, review, failure, calls, jjVars, workspaceVars,
                 watcher, debounceTimer, timers, events, runs, stopped>>

InitWatcher ==
  /\ pc = "watcher"
  /\ workspace = None
  /\ fs = [p \in Paths |-> NoFile]
  /\ config = [maxContextFiles |-> 0, maxContextTokens |-> 0]
  /\ context = None
  /\ aiPlan = AIDown
  /\ plan = None
  /\ completedSteps = <<>>
  /\ startTime = 0
  /\ now = 0
  /\ execution = None
  /\ review = None
  /\ failure = None
  /\ calls = <<>>
  /\ jjProcess = None
  /\ jjResult = None
  /\ WorkspaceIdle
  /\ WatcherIdle

NextWatcher ==
  StartWatcher \/ RunInitial \/ FinishRun \/ OnAll \/ TimerFires \/ Stop \/ Closed \/ Tick

SpecWatcher == InitWatcher /\ [][NextWatcher]_vars

(***************************************************************************)
(* Properties of context building                                          *)
(***************************************************************************)
Built == pc = "plan"

\* the candidates as limitContext scans them: ranked and sorted
Sorted ==
  SortByRelevance(
    RankByRelevance(LoadFileContents(fs, SelectRelevantFiles(workspace)).value, workspace))

InContext(path) ==
  \E k \in 1..Len(context.relevantFiles) : context.relevantFiles[k].path = path

\* the entries of the scan order accepted before position i
AcceptedBefore(sorted, i) == {j \in 1..(i - 1) : InContext(sorted[j].path)}

RECURSIVE TokensOf(_, _)
TokensOf(sorted, S) ==
  IF S = {} THEN 0
  ELSE LET j == CHOOSE k \in S : TRUE IN sorted[j].tokens + TokensOf(sorted, S \ {j})

CountReached(sorted, i) ==
  Cardinality(AcceptedBefore(sorted, i)) >= config.maxContextFiles

TokensOverflow(sorted, i) ==
  TokensOf(sorted, AcceptedBefore(sorted, i)) + sorted[i].tokens > config.maxContextTokens

IsChanged(path) ==
  \E k \in 1..Len(workspace.changedFiles) : workspace.changedFiles[k].path = path

\* C1: a Context returned by build has at most maxContextFiles files, and its
\* totalTokens, the sum of the selected files' token estimates, is at most
\* maxContextTokens.
C1_WithinBudget ==
  Built =>
    /\ Len(context.relevantFiles) <= config.maxContextFiles
    /\ context.totalTokens <= config.maxContextTokens

\* a build whose budget left out some candidate and kept some other
C1_Witness ==
  /\ Built
  /\ Len(context.relevantFiles) >= 1
  /\ Len(context.relevantFiles) < Len(Sorted)
  /\ context.totalTokens >= 1000

Candidates == SelectRelevantFiles(workspace)

PositionIn(xs, x) == CHOOSE i \in 1..Len(xs) : xs[i] = x

\* a comes before b in the order the sort is to produce
ComesBefore(cands, a, b) ==
  \/ a.relevance > b.relevance
  \/ /\ a.relevance = b.relevance
     /\ PositionIn(cands, a.path) < PositionIn(cands, b.path)

\* C11: the candidates limitContext scans are the ranked candidates ordered by
\* descending relevance score, two candidates of equal score keeping the order
\* they have in the deduplicated candidate list; the files of the Context
\* are in that order too.
C11_StableDescendingOrder ==
  Built =>
    LET sorted == Sorted
        cands == Candidates
    IN /\ Len(sorted) = Len(cands)
       /\ \A k \in 1..Len(cands) :
            \E i \in 1..Len(sorted) :
              /\ sorted[i].path = cands[k]
              /\ sorted[i].relevance = CalculateRelevance(sorted[i], workspace)
       /\ \A i, j \in 1..Len(sorted) : i < j => ComesBefore(cands, sorted[i], sorted[j])
       /\ \A k, l \in 1..Len(context.relevantFiles) :
            k < l => ComesBefore(cands, context.relevantFiles[k], context.relevantFiles[l])

\* a Context with two files of equal score, built from candidates that the
\* sort had to reorder: a file of a higher score was listed after one of a
\* lower score
C11_Witness ==
  /\ Built
  /\ \E k, l \in 1..Len(context.relevantFiles) :
       /\ k < l
       /\ context.relevantFiles[k].relevance = context.relevantFiles[l].relevance
  /\ LET sorted == Sorted
     IN \E i, j \in 1..Len(sorted) :
          /\ i < j
          /\ sorted[i].relevance > sorted[j].relevance
          /\ PositionIn(Candidates, sorted[i].path) > PositionIn(Candidates, sorted[j].path)

Min(S) == CHOOSE x \in S : \A y \in S : x <= y

\* some changed file of the snapshot cannot be read
SomeUnreadable ==
  \E i \in 1..Len(workspace.changedFiles) : fs[workspace.changedFiles[i].path] = NoFile

\* the first candidate, in candidate order, that cannot be read
FirstUnreadable ==
  LET cands == Candidates
  IN cands[Min({i \in 1..Len(cands) : fs[cands[i]] = NoFile})]

\* C17: when the content of some candidate file cannot be read, build fails
\* as a whole: no Context is returned, not even one without the unreadable
\* file, and the failure is a single ContextError whose cause is the error
\* of the first read that failed; a Context is returned only when every
\* candidate was read.
C17_ReadFailureFailsBuild ==
  /\ SomeUnreadable => pc \in {"context", "failed"}
  /\ Built => \A i \in 1..Len(Candidates) : fs[Candidates[i]] # NoFile
  /\ pc = "failed" =>
       /\ SomeUnreadable
       /\ context = None
       /\ failure.cause =
            [tag |-> "ContextError", message |-> "Failed to build context",
             cause |-> [tag |-> "FileError", message |-> "Failed to read file",
                        path |-> FirstUnreadable]]

\* a failed build over three candidates of which the first can be read and
\* the other two cannot
C17_Witness ==
  /\ pc = "failed"
  /\ Len(Candidates) = 3
  /\ fs[Candidates[1]] # NoFile
  /\ fs[Candidates[2]] = NoFile
  /\ fs[Candidates[3]] = NoFile
  /\ failure.cause.cause.path = Candidates[2]

\* the score the claim gives to a file of the given path and token estimate
ScoreOf(path, tokens) ==
  (IF IsChanged(path) THEN 100 ELSE 0)
    + (IF tokens < 1000 THEN 50 ELSE IF tokens < 5000 THEN 25 ELSE 0)

\* tokens is the content length divided by 4, rounded up
IsCeilOfQuarter(tokens, length) == 4 * tokens >= length /\ 4 * (tokens - 1) < length

\* C24: the relevance score of a file is 100 if its path is one of the
\* snapshot's changed files, plus 50 if its token estimate is below 1000, 25 if
\* it is at least 1000 and below 5000, 0 from 5000 on, the token estimate being
\* ceil(content length / 4); this holds of every file of a Context that was
\* built, and of any file, changed or not, that calculateRelevance is given.
C24_RelevanceScore ==
  /\ \A path \in Paths : \A length \in ContentLengths :
       LET tokens == EstimateTokens(length)
           file == [path |-> path, content |-> length, tokens |-> tokens, relevance |-> 0]
       IN workspace # None =>
            /\ IsCeilOfQuarter(tokens, length)
            /\ CalculateRelevance(file, workspace) = ScoreOf(path, tokens)
  /\ Built =>
       \A k \in 1..Len(context.relevantFiles) :
         LET file == context.relevantFiles[k]
         IN /\ file.content = fs[file.path]
            /\ IsCeilOfQuarter(file.tokens, file.content)
            /\ file.relevance = ScoreOf(file.path, file.tokens)

\* a Context with a changed file of 1 token (score 150), one of 1000 tokens
\* (125) and one of 5000 tokens (100)
C24_Witness ==
  /\ Built
  /\ \E i, j, k \in 1..Len(context.relevantFiles) :
       /\ context.relevantFiles[i].tokens = 1 /\ context.relevantFiles[i].relevance = 150
       /\ context.relevantFiles[j].tokens = 1000 /\ context.relevantFiles[j].relevance = 125
       /\ context.relevantFiles[k].tokens = 5000 /\ context.relevantFiles[k].relevance = 100

\* C26: the files of a Context are a prefix of the candidates in sorted
\* order: the scan accepts candidates from the first one on and, once a
\* candidate is rejected for the file-count or the token limit, accepts none
\* of those that follow it.
C26_SelectedIsPrefix ==
  Built =>
    LET sorted == Sorted
        n == Len(context.relevantFiles)
    IN /\ n <= Len(sorted)
       /\ context.relevantFiles = SubSeq(sorted, 1, n)
       /\ n < Len(sorted) =>
            /\ n >= config.maxContextFiles
               \/ SumTokens(SubSeq(sorted, 1, n)) + sorted[n + 1].tokens > config.maxContextTokens
            /\ \A j \in (n + 1)..Len(sorted) : ~InContext(sorted[j].path)

\* a Context of one file out of three candidates: the second was rejected for
\* the token limit and the third, which is smaller than the second, was left
\* out with it
C26_Witness ==
  /\ Built
  /\ Len(context.relevantFiles) = 1
  /\ config.maxContextFiles >= 2
  /\ LET sorted == Sorted
     IN /\ Len(sorted) = 3
        /\ sorted[3].tokens < sorted[2].tokens
        /\ context.totalTokens + sorted[3].tokens <= config.maxContextTokens

(***************************************************************************)
(* Properties of plan validation                                           *)
(***************************************************************************)
Planned == pc \in {"execute", "failed"} /\ aiPlan # AIDown

HasDuplicate(steps) ==
  \E i, j \in 1..Len(steps) : i < j /\ steps[i].id = steps[j].id

\* position of the first step that repeats the identifier of an earlier one
FirstRepeat(steps) ==
  CHOOSE j \in 1..Len(steps) :
    /\ \E i \in 1..(j - 1) : steps[i].id = steps[j].id
    /\ \A l \in 1..(j - 1) : \A i \in 1..(l - 1) : steps[i].id # steps[l].id

Unresolved(steps, i) ==
  {k \in 1..Len(steps[i].dependencies) :
     \A l \in 1..Len(steps) : steps[l].id # steps[i].dependencies[k]}

HasUnresolved(steps) == \E i \in 1..Len(steps) : Unresolved(steps, i) # {}

FirstOffender(steps) == Min({i \in 1..Len(steps) : Unresolved(steps, i) # {}})

\* C6: a plan in which two steps share an identifier is rejected with an error
\* naming the first repeated identifier in declaration order, also when the
\* plan has an unresolved dependency as well.
C6_DuplicateRejected ==
  (Planned /\ HasDuplicate(aiPlan.steps)) =>
    /\ pc = "failed"
    /\ plan = None
    /\ failure.error = [message |-> "Duplicate step ID",
                        id |-> aiPlan.steps[FirstRepeat(aiPlan.steps)].id]

\* a rejected plan in which two identifiers are repeated, the one declared
\* first being repeated last, and whose first step has an unresolved dependency
C6_Witness ==
  /\ Planned
  /\ pc = "failed"
  /\ Len(aiPlan.steps) = 4
  /\ aiPlan.steps[1].id = aiPlan.steps[4].id
  /\ aiPlan.steps[2].id = aiPlan.steps[3].id
  /\ aiPlan.steps[1].id # aiPlan.steps[2].id
  /\ Unresolved(aiPlan.steps, 1) # {}

\* C7: a plan with unique identifiers in which a dependency names no step of
\* the plan is rejected with an error naming the first offending step in
\* declaration order and the first identifier of its list that is missing.
C7_UnresolvedRejected ==
  (Planned /\ ~HasDuplicate(aiPlan.steps) /\ HasUnresolved(aiPlan.steps)) =>
    LET i == FirstOffender(aiPlan.steps)
    IN /\ pc = "failed"
       /\ plan = None
       /\ failure.error =
            [message |-> "depends on non-existent step",
             step |-> aiPlan.steps[i].id,
             dep |-> aiPlan.steps[i].dependencies[Min(Unresolved(aiPlan.steps, i))]]

\* a rejected plan with unique identifiers whose first offending step is not
\* the first step and lists a resolved dependency before the missing one
C7_Witness ==
  /\ Planned
  /\ pc = "failed"
  /\ ~HasDuplicate(aiPlan.steps)
  /\ HasUnresolved(aiPlan.steps)
  /\ FirstOffender(aiPlan.steps) > 1
  /\ Min(Unresolved(aiPlan.steps, FirstOffender(aiPlan.steps))) > 1

\* C8: validation hands back the very plan it was given exactly when the
\* identifiers are unique and every dependency names a step of the plan;
\* cycles and self-dependencies are no reason for rejection.
C8_WellFormedReturnedUnchanged ==
  Planned =>
    /\ (pc = "execute") <=> (~HasDuplicate(aiPlan.steps) /\ ~HasUnresolved(aiPlan.steps))
    /\ pc = "execute" => plan = aiPlan

\* an accepted plan with a step that depends on itself and two steps that
\* depend on each other
C8_Witness ==
  /\ Planned
  /\ pc = "execute"
  /\ plan = aiPlan
  /\ \E i \in 1..Len(plan.steps) : \E k \in 1..Len(plan.steps[i].dependencies) :
       plan.steps[i].dependencies[k] = plan.steps[i].id
  /\ \E i, j \in 1..Len(plan.steps) :
       /\ i # j
       /\ plan.steps[i].dependencies = <<plan.steps[j].id>>
       /\ plan.steps[j].dependencies = <<plan.steps[i].id>>

(***************************************************************************)
(* Properties of execution and review                                      *)
(***************************************************************************)
Executed == execution # None

\* C2: whatever the plan and however many of its steps fail, execute returns
\* an ExecutionResult with exactly one StepResult per step of the plan, the
\* i-th one being that of the plan's i-th step.
C2_OneResultPerStepInOrder ==
  /\ pc # "failed"
  /\ Executed =>
       /\ execution.plan = aiPlan
       /\ Len(execution.completedSteps) = Len(aiPlan.steps)
       /\ \A i \in 1..Len(aiPlan.steps) : execution.completedSteps[i].step = aiPlan.steps[i]

\* an ExecutionResult of two different steps, both failed
C2_Witness ==
  /\ Executed
  /\ Len(execution.completedSteps) = 2
  /\ execution.plan.steps[1].type # execution.plan.steps[2].type
  /\ \A i \in 1..2 : ~execution.completedSteps[i].success

\* the StepResult that the outcome of a dispatch is to become
IsResultOf(result, step, outcome) ==
  /\ result.step = step
  /\ result.success = outcome.ok
  /\ outcome.ok => result.output = outcome.value
  /\ ~outcome.ok => result.error = outcome.error.message

\* C3: the failure of the dispatch of a step becomes that step's StepResult
\* with success=false and the error's message; the run stays in the loop over
\* the steps, execute does not fail, and from the loop the run can only go on
\* to the review, which produces a ReviewResult covering every step; until
\* then the run always has a next step to take.
C3_StepFailureIsolated ==
  [][/\ ExecuteNextStep =>
          LET step == plan.steps[Len(completedSteps) + 1]
          IN /\ pc' = "steps"
             /\ failure' = failure
             /\ Len(completedSteps') = Len(completedSteps) + 1
             /\ SubSeq(completedSteps', 1, Len(completedSteps)) = completedSteps
             /\ \E outcome \in ExecuteStepByType(step) :
                  /\ calls' = calls \o outcome.calls
                  /\ IsResultOf(completedSteps'[Len(completedSteps')], step, outcome)
     /\ pc = "steps" =>
          /\ pc' \in {"steps", "review"}
          /\ pc' = "review" => Len(completedSteps) = Len(plan.steps)
     /\ pc = "review" =>
          /\ pc' = "done"
          /\ review'.execution.completedSteps = completedSteps
          /\ Len(review'.execution.completedSteps) = Len(plan.steps)
    ]_vars
  /\ [](pc \in {"steps", "review"} => ENABLED Next)

\* a finished run with a ReviewResult whose first step failed for want of a
\* command, whose second step failed in the file collaborator and whose third
\* step succeeded
C3_Witness ==
  /\ pc = "done"
  /\ review # None
  /\ Len(review.execution.completedSteps) = 3
  /\ ~review.execution.completedSteps[1].success
  /\ review.execution.completedSteps[1].error = Msg("JJ command step missing command", "")
  /\ ~review.execution.completedSteps[2].success
  /\ review.execution.completedSteps[3].success

\* C4: success of an ExecutionResult is true iff every StepResult in
\* completedSteps has success=true, so with any one StepResult changed to a
\* failure it is false.
C4_SuccessIffAllSucceeded ==
  Executed =>
    /\ execution.success <=>
         ~(\E i \in 1..Len(execution.completedSteps) : ~execution.completedSteps[i].success)
    /\ \A i \in 1..Len(execution.completedSteps) :
         ~AllSucceeded([execution.completedSteps EXCEPT ![i].success = FALSE])

\* an ExecutionResult with success=false in which one step succeeded and the
\* other failed
C4_Witness ==
  /\ Executed
  /\ ~execution.success
  /\ Len(execution.completedSteps) = 2
  /\ execution.completedSteps[1].success
  /\ ~execution.completedSteps[2].success

\* a jj_command step without a command (absent or empty)
MissingCommand(step) == step.type = "jj_command" /\ step.command = ""

\* the calls of the version-control runner among the collaborator calls
JJCalls(cs) == SelectSeq(cs, LAMBDA c : c.op = "jj")

\* C12: a jj_command step whose command is empty or absent yields a StepResult
\* with success=false and the missing-command message, the runner is not
\* invoked for it (the runner is called once per dispatched jj_command step
\* that has a command, with that command), and the dispatch of the next step
\* follows: every step of the plan gets its StepResult.
C12_MissingCommandFailsStepOnly ==
  /\ [](pc \in {"steps", "review", "done"} =>
         /\ \A i \in 1..Len(completedSteps) :
              MissingCommand(plan.steps[i]) =>
                /\ completedSteps[i].step = plan.steps[i]
                /\ ~completedSteps[i].success
                /\ completedSteps[i].error = Msg("JJ command step missing command", "")
         /\ LET withCommand == SelectSeq(SubSeq(plan.steps, 1, Len(completedSteps)),
                                         LAMBDA st : st.type = "jj_command" /\ ~MissingCommand(st))
                jjCalls == JJCalls(calls)
            IN /\ Len(jjCalls) = Len(withCommand)
               /\ \A k \in 1..Len(jjCalls) : jjCalls[k].arg = withCommand[k].command
         /\ Executed => Len(execution.completedSteps) = Len(plan.steps))
  /\ [][(ExecuteNextStep /\ MissingCommand(plan.steps[Len(completedSteps) + 1])) =>
          /\ calls' = calls
          /\ fs' = fs
          /\ pc' = "steps"
          /\ failure' = failure
          /\ Len(completedSteps') = Len(completedSteps) + 1
          /\ SubSeq(completedSteps', 1, Len(completedSteps)) = completedSteps
      ]_vars

\* an ExecutionResult whose first step failed for want of a command and whose
\* second step ran its command: the runner was called once, for the second
C12_Witness ==
  /\ Executed
  /\ Len(execution.completedSteps) = 2
  /\ MissingCommand(plan.steps[1])
  /\ ~execution.completedSteps[1].success
  /\ execution.completedSteps[2].success
  /\ Len(calls) = 1
  /\ calls[1].op = "jj"
  /\ calls[1].arg = plan.steps[2].command

Reviewed == review # None

\* C5: approved is true iff the counts of StepResults and plan steps are equal,
\* no StepResult has success=false, duration <= 2 x estimatedDuration and
\* ExecutionResult.success is true; any one of the four being false makes
\* approved false.
C5_ApprovedIffChecksAndSuccess ==
  Reviewed =>
    /\ review.execution = execution
    /\ review.approved <=>
         /\ Len(execution.completedSteps) = Len(execution.plan.steps)
         /\ \A i \in 1..Len(execution.completedSteps) : execution.completedSteps[i].success
         /\ execution.duration <= 2 * execution.plan.estimatedDuration
         /\ execution.success

\* a review that is not approved although all three checks passed: only the
\* success flag of the ExecutionResult is false
C5_Witness ==
  /\ Reviewed
  /\ ~review.approved
  /\ review.validation.passed
  /\ Len(execution.completedSteps) = 2
  /\ execution.duration > 0

(***************************************************************************)
(* Properties of the whole run                                             *)
(***************************************************************************)
\* the stage that may follow each stage of a run
StageOrder ==
  {<<"analyze", "context">>, <<"context", "plan">>, <<"plan", "validate">>,
   <<"validate", "execute">>, <<"execute", "steps">>, <<"steps", "steps">>,
   <<"steps", "review">>, <<"review", "done">>}

BeforeExecution == {"analyze", "context", "plan", "validate"}

\* C13: the stages of a run follow one another in the order analysis, context
\* building, planning call, plan validation, step execution, review, a stage
\* being left only for the next one or for the failure of the run.  The
\* planning call begins with the complete Context of the build; no step is
\* dispatched, and no collaborator is called, before the plan has passed the
\* whole validation; each round of the execution dispatches the one step that
\* follows the steps already finished and finishes it, its collaborator calls
\* coming after all those of the earlier steps; the review begins when every
\* step has its StepResult.
C13_StagesInOrder ==
  /\ [](/\ pc \in {"analyze", "context"} => context = None
        /\ pc \in {"plan", "validate", "execute"} =>
             /\ Build(workspace, fs, config).ok
             /\ context = Build(workspace, fs, config).value
        /\ pc \in BeforeExecution =>
             /\ plan = None
             /\ completedSteps = <<>>
             /\ calls = <<>>
             /\ execution = None
        /\ pc \in {"execute", "steps", "review", "done"} =>
             /\ plan = aiPlan
             /\ ~HasDuplicate(plan.steps)
             /\ ~HasUnresolved(plan.steps)
        /\ pc \in {"execute", "steps"} => execution = None
        /\ pc = "steps" =>
             /\ Len(completedSteps) <= Len(plan.steps)
             /\ \A i \in 1..Len(completedSteps) : completedSteps[i].step = plan.steps[i]
        /\ pc = "review" =>
             /\ execution # None
             /\ Len(execution.completedSteps) = Len(plan.steps)
        /\ pc # "done" => review = None
        /\ pc = "done" => review # None /\ review.execution = execution)
  /\ [][/\ pc' # pc => (<<pc, pc'>> \in StageOrder \/ pc' = "failed")
        /\ pc' = pc => pc = "steps"
        /\ pc # "context" => context' = context
        /\ pc # "validate" => plan' = plan
        /\ pc # "steps" => calls' = calls /\ fs' = fs
        /\ (pc = "steps" /\ pc' = "steps") =>
             LET step == plan.steps[Len(completedSteps) + 1]
             IN /\ Len(completedSteps) < Len(plan.steps)
                /\ completedSteps' = Append(completedSteps, completedSteps'[Len(completedSteps')])
                /\ \E outcome \in ExecuteStepByType(step) :
                     /\ calls' = calls \o outcome.calls
                     /\ IsResultOf(completedSteps'[Len(completedSteps')], step, outcome)
        /\ (pc = "steps" /\ pc' = "review") =>
             /\ Len(completedSteps) = Len(plan.steps)
             /\ execution'.completedSteps = completedSteps
             /\ calls' = calls
    ]_vars

\* a finished run that went through every stage: the Context holds a file,
\* the plan of two steps was executed, first the write and then the command,
\* and reviewed
C13_Witness ==
  /\ pc = "done"
  /\ Len(context.relevantFiles) >= 1
  /\ Len(plan.steps) = 2
  /\ Len(review.execution.completedSteps) = 2
  /\ Len(calls) = 2
  /\ calls[1].op = "write"
  /\ calls[2].op = "jj"

\* C14: when context building fails (a candidate cannot be read) or plan
\* validation fails (a repeated identifier or an unresolved dependency), the
\* run goes straight to its end: no Context, not even a partial one, exists
\* and the planning call is never made after a failed build; no plan is handed
\* on after a failed validation; in both cases no step is dispatched, no
\* collaborator (file write, file delete, jj) is called, no ExecutionResult
\* and no ReviewResult is produced, and the ended run takes no further step.
C14_FailedStageEndsRun ==
  /\ [][/\ (pc = "context" /\ SomeUnreadable) =>
             /\ pc' = "failed"
             /\ context' = None
        /\ (pc = "validate" /\ (HasDuplicate(aiPlan.steps) \/ HasUnresolved(aiPlan.steps))) =>
             /\ pc' = "failed"
             /\ plan' = None
    ]_vars
  /\ [](pc = "failed" =>
         /\ ~ENABLED Next
         /\ plan = None
         /\ completedSteps = <<>>
         /\ calls = <<>>
         /\ execution = None
         /\ review = None
         /\ context = None <=> failure.tag = "AppError" /\ failure.cause.tag \in {"WorkspaceError", "ContextError"})

\* a run ended by the validation of a plan whose second step repeats the
\* identifier of the first and asks for a file write: the Context was built,
\* nothing was written
C14_Witness ==
  /\ pc = "failed"
  /\ context # None
  /\ aiPlan # AIDown
  /\ HasDuplicate(aiPlan.steps)
  /\ \E i \in 1..Len(aiPlan.steps) : aiPlan.steps[i].type = "file_write"
  /\ calls = <<>>
  /\ review = None

\* the plan of the end-to-end scenarios: step "1" writes a file, step "2"
\* runs a command and depends on "1"
WriteThenCommand == <<Step("1", WriteA, <<>>), Step("2", Describe, <<"1">>)>>

\* a finished run of that plan in which the write succeeded and the jj
\* process ended with the given exit code
ScenarioRun(exit) ==
  /\ pc = "done"
  /\ plan.steps = WriteThenCommand
  /\ Len(calls) = 2
  /\ calls[1].op = "write" /\ calls[1].ok
  /\ calls[2].op = "jj" /\ calls[2].exit = exit

HasRetrySuggestion(ids) ==
  \E i \in 1..Len(review.suggestions) :
    review.suggestions[i].kind = "Retry failed steps" /\ review.suggestions[i].ids = ids

\* C15: in a run of the plan [write-files "1", run-vcs-command "2" depending
\* on "1"] whose write succeeds and whose command exits non-zero, the
\* StepResult of "2" has success=false and the command's stderr as its error
\* text, ExecutionResult.success is false, the no-errors check fails, approved
\* is false and the suggestions contain "Retry failed steps: 2".
C15_FailedCommandReported ==
  \A exit \in ExitCodes \ {0} :
    ScenarioRun(exit) =>
      /\ ~execution.completedSteps[2].success
      /\ execution.completedSteps[2].error = Stderr(plan.steps[2].command)
      /\ ~execution.success
      /\ ~review.validation.checks[2].passed
      /\ ~review.approved
      /\ HasRetrySuggestion(<<"2">>)

BothSucceeded ==
  /\ execution.success
  /\ Len(execution.completedSteps) = 2
  /\ execution.completedSteps[1].success
  /\ execution.completedSteps[2].success

\* C16 as claimed: in a run of the plan [write-files "1" with one file that
\* has content, run-vcs-command "2" depending on "1"] whose write and command
\* both succeed, ExecutionResult.success is true, both StepResults have
\* success=true, and the ReviewResult has approved=true and no suggestion.
C16_BothSucceedApproved ==
  ScenarioRun(0) =>
    /\ BothSucceeded
    /\ review.approved
    /\ review.suggestions = <<>>

\* C16 as amended: in such a run ExecutionResult.success is true and both
\* StepResults have success=true; the ReviewResult has approved=true and no
\* suggestion when the duration of the execution is at most 1.5 times the
\* plan's estimated duration; beyond that the suggestions are the
\* optimization one, preceded beyond twice the estimate by the one for the
\* failed duration check, and approved is true up to twice the estimate.
C16_BothSucceedApprovedInTime ==
  ScenarioRun(0) =>
    LET duration == execution.duration
        estimated == plan.estimatedDuration
        kinds == [i \in 1..Len(review.suggestions) |-> review.suggestions[i].kind]
    IN /\ BothSucceeded
       /\ 2 * duration <= 3 * estimated => review.approved /\ kinds = <<>>
       /\ review.approved <=> duration <= 2 * estimated
       /\ (2 * duration > 3 * estimated /\ duration <= 2 * estimated) =>
            kinds = <<"Consider optimizing">>
       /\ duration > 2 * estimated => kinds = <<"Address", "Consider optimizing">>

\* such a run that took its whole estimated duration and half of it again,
\* approved and without a suggestion
C16_Witness ==
  /\ ScenarioRun(0)
  /\ 2 * execution.duration = 3 * plan.estimatedDuration
  /\ execution.duration > 0
  /\ review.approved
  /\ review.suggestions = <<>>

\* the errors of the stages: WorkspaceError, ContextError, AIError,
\* ExecutionError, ReviewError
StageErrors == {"WorkspaceError", "ContextError", "AIError", "ExecutionError", "ReviewError"}

\* C18: every failure that aborts a run, in workspace analysis, context
\* building, the planning call, plan validation or review, leaves run as an
\* AppError that carries a message and the error of the stage as its cause,
\* and the run ends without a ReviewResult.
C18_AbortIsAppError ==
  pc = "failed" =>
    /\ failure.tag = "AppError"
    /\ failure.message = "Workflow execution failed"
    /\ failure.cause.tag \in StageErrors
    /\ review = None

(***************************************************************************)
(* Properties of the jj command module                                     *)
(***************************************************************************)
\* the process was spawned, ended, and both its streams were read
ProcessCompleted == jjProcess.spawn = "resolved" /\ jjProcess.read = "resolved"

\* trimmed is text without the whitespace at its two ends
IsTrimOf(trimmed, text) ==
  \E i \in 1..(Len(text) + 1) : \E j \in 0..Len(text) :
    /\ trimmed = SubSeq(text, i, j)
    /\ \A k \in 1..(i - 1) : text[k] \in Whitespace
    /\ \A k \in (j + 1)..Len(text) : text[k] \in Whitespace
    /\ trimmed # <<>> => (trimmed[1] \notin Whitespace /\ trimmed[Len(trimmed)] \notin Whitespace)

\* C19: the Effect of executeJJ never dies: it succeeds, with the standard
\* output trimmed, exactly when the process was spawned, exited with code 0
\* and had its output read; it fails with a JJCommandError carrying the
\* command, the exit code and the stderr when the process exited with
\* another code, and with a JJNotFoundError when the process could not be
\* spawned or its output could not be read.  checkJJAvailable always
\* succeeds, with true exactly when executeJJ succeeds and false otherwise.
C19_ExecuteJJNeverThrows ==
  jjResult # None =>
    LET result == jjResult.result
    IN /\ result.exit \in {"Success", "Failure"}
       /\ jjResult.op = "executeJJ" =>
            /\ result.exit = "Success" <=> (ProcessCompleted /\ jjProcess.exitCode = 0)
            /\ result.exit = "Success" => IsTrimOf(result.value, jjProcess.stdout)
            /\ (ProcessCompleted /\ jjProcess.exitCode # 0) =>
                 /\ result.error._tag = "JJCommandError"
                 /\ result.error.command = [prefix |-> "jj ", joined |-> jjResult.args]
                 /\ result.error.exitCode = jjProcess.exitCode
                 /\ result.error.stderr = jjProcess.stderr
            /\ ~ProcessCompleted => result.error._tag = "JJNotFoundError"
       /\ jjResult.op = "checkJJAvailable" =>
            /\ result.exit = "Success"
            /\ result.value \in BOOLEAN
            /\ result.value <=> (ProcessCompleted /\ jjProcess.exitCode = 0)

\* checkJJAvailable answered false because the process could not be spawned
C19_Witness ==
  /\ jjResult # None
  /\ jjResult.op = "checkJJAvailable"
  /\ jjProcess.spawn = "Error"
  /\ jjResult.result = [exit |-> "Success", value |-> FALSE]

(***************************************************************************)
(* Properties of the execution order                                       *)
(***************************************************************************)
\* the step was dispatched to the work of its type: an analysis or validation
\* step succeeded, a command was handed to the runner, the first file of a
\* write (one with content) or of a delete was handed to the file collaborator
WasDispatched(step, result, before, after) ==
  /\ step.type \in {"analysis", "validation"} => result.success
  /\ (step.type = "jj_command" /\ step.command # "") =>
       /\ Len(after) = Len(before) + 1
       /\ after[Len(after)].op = "jj"
       /\ after[Len(after)].arg = step.command
       /\ result.success = after[Len(after)].ok
  /\ (step.type = "file_write" /\ step.files # <<>> /\ step.files[1].content # 0) =>
       /\ Len(after) > Len(before)
       /\ after[Len(before) + 1].op = "write"
       /\ after[Len(before) + 1].arg = step.files[1].path
  /\ (step.type = "file_delete" /\ step.files # <<>>) =>
       /\ Len(after) > Len(before)
       /\ after[Len(before) + 1].op = "delete"
       /\ after[Len(before) + 1].arg = step.files[1].path

\* the steps of the plan that the step at position i depends on
DependenciesOf(i) ==
  {j \in 1..Len(plan.steps) :
     \E k \in 1..Len(plan.steps[i].dependencies) :
       plan.steps[i].dependencies[k] = plan.steps[j].id}

\* C20: execute dispatches the steps in the order the plan declares them,
\* whatever their dependency lists: as long as steps are left the next
\* declared one can be dispatched, each round dispatches the step that
\* follows the finished ones to the work of its type, also when a step it
\* depends on is declared later and has not run, or has run and failed, and
\* the results are in declared order.
C20_DeclaredOrderIgnoresDependencies ==
  /\ [](pc \in {"steps", "review", "done"} =>
         /\ Len(completedSteps) <= Len(plan.steps)
         /\ \A i \in 1..Len(completedSteps) : completedSteps[i].step = plan.steps[i])
  /\ [](pc = "steps" /\ Len(completedSteps) < Len(plan.steps) => ENABLED ExecuteNextStep)
  /\ [][ExecuteNextStep =>
          LET i == Len(completedSteps) + 1
          IN /\ Len(completedSteps') = i
             /\ SubSeq(completedSteps', 1, i - 1) = completedSteps
             /\ completedSteps'[i].step = plan.steps[i]
             /\ WasDispatched(plan.steps[i], completedSteps'[i], calls, calls')
      ]_vars

\* a finished execution in which the first step, which depends on the third,
\* ran first and failed, the second step, which depends on the first, ran
\* after that failure and deleted its file, and the third step ran last
C20_Witness ==
  /\ Executed
  /\ Len(execution.completedSteps) = 3
  /\ DependenciesOf(1) = {3}
  /\ DependenciesOf(2) = {1}
  /\ ~execution.completedSteps[1].success
  /\ execution.completedSteps[2].success
  /\ execution.completedSteps[3].success
  /\ Len(calls) = 1
  /\ calls[1].op = "delete"
  /\ calls[1].ok

(***************************************************************************)
(* Properties of the review                                                *)
(***************************************************************************)
\* C21: for any ExecutionResult, also one whose completedSteps and plan.steps
\* differ in length, the ValidationResult has exactly three checks:
\* all-steps-completed, passing iff the two counts are equal; no-errors,
\* passing iff no StepResult has success=false; reasonable-duration, passing
\* iff duration <= 2 x estimatedDuration; each is there whatever the others
\* say, and passed is their conjunction.
C21_ThreeIndependentChecks ==
  Reviewed =>
    LET checks == review.validation.checks
    IN /\ Len(checks) = 3
       /\ checks[1].name = "All steps completed"
       /\ checks[1].passed <=> Len(execution.completedSteps) = Len(execution.plan.steps)
       /\ checks[2].name = "No errors"
       /\ checks[2].passed <=>
            ~(\E i \in 1..Len(execution.completedSteps) : ~execution.completedSteps[i].success)
       /\ checks[3].name = "Reasonable duration"
       /\ checks[3].passed <=> execution.duration <= 2 * execution.plan.estimatedDuration
       /\ review.validation.passed <=> (checks[1].passed /\ checks[2].passed /\ checks[3].passed)

\* a review of an ExecutionResult with fewer StepResults than steps, one of
\* them failed, that took exactly twice its estimate: the first two checks
\* fail and the third passes
C21_Witness ==
  /\ Reviewed
  /\ Len(execution.completedSteps) < Len(execution.plan.steps)
  /\ execution.duration > 0
  /\ execution.duration = 2 * execution.plan.estimatedDuration
  /\ ~review.validation.checks[1].passed
  /\ ~review.validation.checks[2].passed
  /\ review.validation.checks[3].passed
  /\ ~review.validation.passed

\* the positions of the suggestions of a kind
SuggestionsOfKind(kind) ==
  {i \in 1..Len(review.suggestions) : review.suggestions[i].kind = kind}

\* the positions of the failed results, in order
RECURSIVE FailedPositions(_, _)
FailedPositions(results, i) ==
  IF i > Len(results) THEN <<>>
  ELSE IF results[i].success THEN FailedPositions(results, i + 1)
  ELSE <<i>> \o FailedPositions(results, i + 1)

\* C22: the suggestions of a ReviewResult are exactly one "Address" per
\* failed check, with the message of that check, in the order of the checks;
\* then one "Retry failed steps" naming the identifier of every failed step
\* in order iff a step failed; then the optimization suggestion iff
\* duration > 1.5 x estimatedDuration.  So beyond twice the estimate the
\* Address of the duration check and the optimization suggestion both
\* appear, and between 1.5 and 2 times only the optimization suggestion.
C22_SuggestionsExactly ==
  Reviewed =>
    LET checks == review.validation.checks
        failedChecks == FailedPositions([i \in 1..Len(checks) |-> [success |-> checks[i].passed]], 1)
        failedSteps == FailedPositions(execution.completedSteps, 1)
        nAddress == Len(failedChecks)
        nRetry == IF failedSteps # <<>> THEN 1 ELSE 0
        slow == 2 * execution.duration > 3 * execution.plan.estimatedDuration
        nOptimize == IF slow THEN 1 ELSE 0
        suggestions == review.suggestions
    IN /\ Len(suggestions) = nAddress + nRetry + nOptimize
       /\ \A i \in 1..nAddress :
            /\ suggestions[i].kind = "Address"
            /\ suggestions[i].message = checks[failedChecks[i]].message
       /\ nRetry = 1 =>
            /\ suggestions[nAddress + 1].kind = "Retry failed steps"
            /\ suggestions[nAddress + 1].ids =
                 [k \in 1..Len(failedSteps) |-> execution.completedSteps[failedSteps[k]].step.id]
       /\ slow => suggestions[Len(suggestions)].kind = "Consider optimizing"
       /\ execution.duration > 2 * execution.plan.estimatedDuration =>
            /\ SuggestionsOfKind("Consider optimizing") # {}
            /\ \E i \in SuggestionsOfKind("Address") :
                 suggestions[i].message.text = "Took n ms, exceeded 2x estimate (m ms)"
       /\ (slow /\ execution.duration <= 2 * execution.plan.estimatedDuration) =>
            \A i \in SuggestionsOfKind("Address") :
              suggestions[i].message.text # "Took n ms, exceeded 2x estimate (m ms)"

\* a review with all three kinds: two steps failed and the execution took
\* more than twice its estimate
C22_Witness ==
  /\ Reviewed
  /\ execution.plan.estimatedDuration > 0
  /\ execution.duration > 2 * execution.plan.estimatedDuration
  /\ Len(review.suggestions) = 4
  /\ review.suggestions[1].kind = "Address"
  /\ review.suggestions[2].kind = "Address"
  /\ review.suggestions[3].ids = <<"1", "2">>
  /\ review.suggestions[4].kind = "Consider optimizing"

(***************************************************************************)
(* Properties of the file steps                                            *)
(***************************************************************************)
\* every entry of the list has content
AllHaveContent(files) == \A k \in 1..Len(files) : files[k].content # 0

\* C23: a write-files step succeeds only if its list of file operations is
\* not empty and every entry has content, and it has then written every
\* listed file and reports their number; if the list is empty or absent, or
\* some entry lacks content, the step fails and none of its files is written;
\* either way the next step is dispatched.
C23_WriteAllOrNothing ==
  [][(ExecuteNextStep /\ plan.steps[Len(completedSteps) + 1].type = "file_write") =>
       LET step == plan.steps[Len(completedSteps) + 1]
           result == completedSteps'[Len(completedSteps')]
           written == SubSeq(calls', Len(calls) + 1, Len(calls'))
       IN /\ pc' = "steps"
          /\ Len(completedSteps') = Len(completedSteps) + 1
          /\ result.success =>
               /\ step.files # <<>>
               /\ AllHaveContent(step.files)
               /\ Len(written) = Len(step.files)
               /\ \A k \in 1..Len(written) :
                    /\ written[k].op = "write"
                    /\ written[k].ok
                    /\ written[k].arg = step.files[k].path
                    /\ fs'[step.files[k].path] = step.files[k].content
               /\ result.output = Msg("Wrote file(s)", ToString(Len(step.files)))
          /\ (step.files = <<>> \/ ~AllHaveContent(step.files)) =>
               /\ ~result.success
               /\ \A k \in 1..Len(written) : ~written[k].ok
               /\ fs' = fs
  ]_vars

(***************************************************************************)
(* Properties of the review of an execution by the Executor                *)
(***************************************************************************)
\* C27: in the review of an ExecutionResult produced by execute, the
\* no-errors check passes iff ExecutionResult.success is true; so
\* validation.passed implies success, and approved equals validation.passed.
C27_NoErrorsIffSuccess ==
  Reviewed =>
    /\ review.execution = execution
    /\ review.validation.checks[2].name = "No errors"
    /\ review.validation.checks[2].passed <=> execution.success
    /\ review.validation.passed => execution.success
    /\ review.approved <=> review.validation.passed

\* the review of an execution of two steps, the second failed, within its
\* estimate: only the no-errors check fails, success and approved are false
C27_Witness ==
  /\ Reviewed
  /\ Len(execution.completedSteps) = 2
  /\ execution.completedSteps[1].success
  /\ ~execution.completedSteps[2].success
  /\ ~execution.success
  /\ review.validation.checks[1].passed
  /\ ~review.validation.checks[2].passed
  /\ review.validation.checks[3].passed
  /\ ~review.approved

\* C28: in the review of an ExecutionResult produced by execute, a
\* ReviewResult with approved=false carries at least one suggestion, and
\* one without suggestions is approved.  (An approved one may carry the
\* optimization suggestion: the witness.)
C28_UnapprovedHasSuggestion ==
  Reviewed =>
    /\ ~review.approved => Len(review.suggestions) >= 1
    /\ review.suggestions = <<>> => review.approved

\* an approved ReviewResult that carries the optimization suggestion: the
\* execution took more than 1.5 times and at most twice its estimate
C28_Witness ==
  /\ Reviewed
  /\ review.approved
  /\ Len(execution.completedSteps) >= 1
  /\ Len(review.suggestions) = 1
  /\ review.suggestions[1].kind = "Consider optimizing"

(***************************************************************************)
(* Properties of the detection of the project type                         *)
(***************************************************************************)
\* the marker file exists in the workspace root
Present(marker) == markers[marker] = "Stats"

\* the project type by the fixed priority of the markers
TypeByPriority ==
  IF Present("tsconfig.json") THEN "typescript"
  ELSE IF Present("package.json") THEN "javascript"
  ELSE IF Present("Cargo.toml") THEN "rust"
  ELSE IF Present("requirements.txt") \/ Present("pyproject.toml") THEN "python"
  ELSE "unknown"

\* C30: detectProjectType never fails, a missing marker file counts as
\* absent, the result is the project type by the fixed priority; and the
\* workspace analysis whose jj calls succeed does not fail.
C30_DetectNeverFails ==
  pc = "workspace-done" =>
    /\ projectType.op = "detectProjectType" =>
          /\ projectType.result.exit = "Success"
          /\ projectType.result.value = TypeByPriority
    /\ projectType.op = "analyze" /\ projectType.jjOk =>
          /\ projectType.result.exit = "Success"
          /\ projectType.result.value.projectType = TypeByPriority

(***************************************************************************)
(* Properties of the file watcher                                          *)
(***************************************************************************)
\* the runs the timer of change event k started
RunsOf(k) == {i \in 1..Len(runs) : runs[i].trigger = "timer" /\ runs[i].event = k}

\* change event k is the last of its burst: no event follows it within
\* less than the debounce time
LastOfBurst(k) == k = Len(events) \/ events[k + 1] >= events[k] + DebounceMs

\* the debounce time of change event k is over
Elapsed(k) ==
  /\ events[k] + DebounceMs <= clock
  /\ \A t \in timers : t.id # k

\* stop() was called after change event k and before its timer ran
StoppedBefore(k) ==
  /\ stopped # None
  /\ k <= stopped.events
  /\ \A i \in RunsOf(k) : i > stopped.runs

\* C25: at most one debounce timer is pending; a change event that is
\* followed by another one in less than 1000 ms starts no run; the last
\* event of a burst starts exactly one run, 1000 ms after it; and an event
\* received before stop() cleared its timer starts no run.
C25_Debounce ==
  /\ Cardinality(timers) <= 1
  /\ \A k \in 1..Len(events) :
       /\ \A i \in RunsOf(k) : runs[i].at = events[k] + DebounceMs
       /\ ~LastOfBurst(k) => RunsOf(k) = {}
       /\ StoppedBefore(k) => RunsOf(k) = {}
       /\ LastOfBurst(k) /\ Elapsed(k) /\ ~StoppedBefore(k) => Cardinality(RunsOf(k)) = 1

\* a burst of two change events 500 ms apart has started one run, 1000 ms
\* after the second event
C25_Witness ==
  /\ Len(events) = 2
  /\ events[2] - events[1] = DebounceMs \div 2
  /\ clock > events[2] + DebounceMs
  /\ stopped = None
  /\ RunsOf(1) = {}
  /\ \E i \in 1..Len(runs) : RunsOf(2) = {i} /\ runs[i].at = events[2] + DebounceMs

\* C29: at most one run of the orchestrator is in progress at any time.
C29_OneRunAtATime ==
  Cardinality({i \in 1..Len(runs) : InProgress(runs[i])}) <= 1

====
